---- MODULE Spec2Model ----
(***************************************************************************)
(* A model of the monic monitoring engine: the alert state machine         *)
(* (alert/alert.go, StateManager), the bounded history store               *)
(* (StorageManager), the alert dispatcher (AlertManager) and the           *)
(* orchestrator (MonitorService).                                          *)
(*                                                                         *)
(* Time is an integer.  ZeroTime stands for Go's time.Time{}; every        *)
(* reading of time.Now() is at least 1.                                    *)
(***************************************************************************)
EXTENDS Integers, Sequences, FiniteSets, TLC

VARIABLES
    states,        \* StateManager.states: key -> AlertState (created lazily)
    clock,         \* the latest reading of time.Now() by the state manager
    obs,           \* per key: what an observer of the evaluations has seen
    emitted,       \* the alerts returned by the latest Update*State call
    alerts,        \* StorageManager.alerts
    statsHistory,  \* StorageManager.statsHistory
    httpHistory,   \* StorageManager.httpHistory
    dockerHistory, \* StorageManager.dockerHistory
    maxHistorySize,\* StorageManager.maxHistorySize
    appended,      \* per category: every entry appended since it was last empty by construction or ClearAlerts
    ret,           \* the value returned by the latest read of the store
    config,        \* AlertManager.config
    lastSent,      \* AlertManager.lastSent: alert type -> time of the last send
    wall,          \* the wall clock read by the dispatcher, in minutes
    senders,       \* per goroutine: its position in SendAlert / SendAlerts
    deliveries,    \* per alert type: the time of its latest delivery and the
                   \* shortest time seen between two of its deliveries
    lastSend,      \* the latest SendAlert that returned after reaching the channels
    handed,        \* the number of alerts handed to SendAlert / SendAlerts so far
    broken,        \* the channels whose transport returns an error
    fatal,         \* the Go runtime has stopped the process
    env,           \* what Start finds: the validity of the configuration, Docker
    svc,           \* the goroutine of main: new, running, failed, waiting, stopped
    stopChan,      \* MonitorService.stopChan: open or closed
    wg,            \* MonitorService.wg: the counter of the WaitGroup
    tasks,         \* per task: none (not launched), select, cycle, sending, exited
    cycles,        \* the ticks the tasks have received
    pending,       \* processAlerts: the copy of the alerts it is dispatching
    skipped,       \* the tasks whose latest cycle logged a collaborator error
    scribbled,     \* the stored samples whose DiskUsage map a reader has written to
    access,        \* per evaluating goroutine: where it is in Update*State
    mu,            \* per category: the state of its sync.RWMutex
    callers,       \* per goroutine calling the store: its call and the locks it holds
    called,        \* the calls of the store made so far
    web,           \* StatsServer: its configuration, the latest request and its answer
    probed,        \* per configured endpoint: the cycles in a row its probe has failed
    offered        \* the alerts processAlerts has passed to SendAlert, in order

smVars == <<states, clock, obs, emitted>>

storeVars == <<alerts, statsHistory, httpHistory, dockerHistory, maxHistorySize,
               appended, ret>>

dispVars == <<config, lastSent, wall, senders, deliveries, lastSend, handed,
              broken, fatal>>

svcVars == <<env, svc, stopChan, wg, tasks, cycles, pending, skipped>>

readerVars == <<scribbled>>

mapVars == <<access>>

lockVars == <<mu, callers, called>>

webVars == <<web>>

probeVars == <<probed>>

passVars == <<offered>>

vars == <<smVars, storeVars, dispVars, svcVars, readerVars, mapVars, lockVars, webVars,
         probeVars, passVars>>

----------------------------------------------------------------------------
(* Bounds of the model *)

MaxClock == 3           \* the last reading of the clock an evaluation call may see
MaxBatch == 3           \* endpoint results handed to one UpdateHTTPState call
HistorySize == 2        \* the capacity handed to NewStorageManager
MaxOverflow == 1        \* entries appended to one category beyond its capacity
MaxWall == 3            \* minutes of wall-clock time the dispatcher is followed for
MaxHanded == 2          \* alerts handed to SendAlert / SendAlerts per behaviour
MaxStored == 3          \* entries a store followed with its readers is given in all
MaxCycles == 3          \* ticks the tasks of the service receive in all
MaxStoreCalls == 3      \* calls of the store followed lock by lock
MaxRequests == 2        \* requests the stats endpoint receives
MaxTicks == 6           \* ticks of the endpoint, container and dispatch tasks together

----------------------------------------------------------------------------
(* Alert state machine: alert/alert.go, second file (StateManager) *)

ZeroTime == 0

NoAlert == [Type |-> "", Message |-> "", Level |-> "none", Timestamp |-> ZeroTime]

\* time.Time.After
After(t, u) == t > u

\* thresholds of SystemChecksConfig
CPUThreshold == 80
MemoryThreshold == 85
DiskThreshold == 90

DiskPaths == {"/"}

\* the samples CollectStats can hand to UpdateSystemState: all healthy, the
\* CPU exactly at its threshold, memory and disk above theirs
SystemSamples ==
    {[CPUUsage |-> 79, MemoryUsedPercent |-> 50, DiskUsage |-> [p \in DiskPaths |-> 50]],
     [CPUUsage |-> 80, MemoryUsedPercent |-> 50, DiskUsage |-> [p \in DiskPaths |-> 50]],
     [CPUUsage |-> 79, MemoryUsedPercent |-> 95, DiskUsage |-> [p \in DiskPaths |-> 95]]}

\* the results a probe can produce
HTTPNames == {"api"}

HTTPResults ==
    {[Name |-> n, Success |-> TRUE, Error |-> ""] : n \in HTTPNames}
    \cup {[Name |-> n, Success |-> FALSE, Error |-> "request failed"] : n \in HTTPNames}

SeqsUpTo(S, n) == UNION {[1..m -> S] : m \in 0..n}

\* config.HTTPChecks of a deployment that watches two endpoints
Endpoints == {"api", "web"}

EndpointCheck(e) == [Name |-> e, URL |-> <<"https://", e>>]

\* CheckEndpoint(check): the result takes the URL of the check and the outcome
\* of the request; its Name is left as the zero value
CheckEndpoint(check, success) ==
    [URL |-> check.URL, Name |-> "", Success |-> success,
     Error |-> IF success THEN "" ELSE "request failed"]

\* the orders in which the goroutines of CheckEndpointsConcurrent can finish
Orders == {o \in [1..Cardinality(Endpoints) -> Endpoints] :
              \A i, j \in DOMAIN o : i # j => o[i] # o[j]}

\* CheckEndpointsConcurrent(checks): one result per check, in the order of
\* completion
CheckEndpointsConcurrent(outcome, order) ==
    [i \in DOMAIN order |-> CheckEndpoint(EndpointCheck(order[i]), outcome[order[i]])]

\* getOrCreateState: the state of the key, created on first use
NewState(alertType, created) ==
    [Type |-> alertType, CurrentState |-> "ok", ConsecutiveChecks |-> 0,
     LastAlertSent |-> ZeroTime, LastStateChange |-> created]

getOrCreateState(st, alertType, created) ==
    IF alertType \in DOMAIN st THEN st
    ELSE st @@ (alertType :> NewState(alertType, created))

\* shouldSendAlert with the debounce one sample short
shouldSendAlert_short(state) ==
    IF state.CurrentState = "ok"
    THEN state.ConsecutiveChecks = 1
         /\ After(state.LastAlertSent, state.LastStateChange)
    ELSE IF state.ConsecutiveChecks < 2 THEN FALSE
    ELSE IF After(state.LastAlertSent, state.LastStateChange) THEN FALSE
    ELSE TRUE

\* shouldSendAlert, on the state as updateState has just changed it
shouldSendAlert(state) ==
    IF state.CurrentState = "ok"
    THEN state.ConsecutiveChecks = 1
         /\ After(state.LastAlertSent, state.LastStateChange)
    ELSE IF state.ConsecutiveChecks < 3 THEN FALSE
    ELSE IF After(state.LastAlertSent, state.LastStateChange) THEN FALSE
    ELSE TRUE

\* the counters of updateState with the reset on a transition forgotten
Counted_noReset(state, currentState, now) ==
    IF state.CurrentState # currentState
    THEN [state EXCEPT !.CurrentState = currentState,
                       !.ConsecutiveChecks = @ + 1,
                       !.LastStateChange = now]
    ELSE [state EXCEPT !.ConsecutiveChecks = @ + 1]

\* the counters of updateState with the time of change written every time
Counted_stampAlways(state, currentState, now) ==
    IF state.CurrentState # currentState
    THEN [state EXCEPT !.CurrentState = currentState,
                       !.ConsecutiveChecks = 1,
                       !.LastStateChange = now]
    ELSE [state EXCEPT !.ConsecutiveChecks = @ + 1,
                       !.LastStateChange = now]

\* updateState, first half: the counters
Counted(state, currentState, now) ==
    IF state.CurrentState # currentState
    THEN [state EXCEPT !.CurrentState = currentState,
                       !.ConsecutiveChecks = 1,
                       !.LastStateChange = now]
    ELSE [state EXCEPT !.ConsecutiveChecks = @ + 1]

\* updateState that writes LastAlertSent whether or not it returns an alert
updateState_stampsAlways(state, alertType, currentState, message, now) ==
    LET s1 == Counted(state, currentState, now)
    IN  IF shouldSendAlert(s1)
        THEN [state |-> [s1 EXCEPT !.LastAlertSent = now],
              alert |-> [Type |-> alertType, Message |-> message,
                         Level |-> IF currentState = "critical"
                                   THEN "critical" ELSE "warning",
                         Timestamp |-> now]]
        ELSE [state |-> [s1 EXCEPT !.LastAlertSent = now], alert |-> NoAlert]

\* updateState: the new state and the alert (NoAlert for nil)
updateState(state, alertType, currentState, message, now) ==
    LET s1 == Counted(state, currentState, now)
    IN  IF shouldSendAlert(s1)
        THEN [state |-> [s1 EXCEPT !.LastAlertSent = now],
              alert |-> [Type |-> alertType, Message |-> message,
                         Level |-> IF currentState = "critical"
                                   THEN "critical" ELSE "warning",
                         Timestamp |-> now]]
        ELSE [state |-> s1, alert |-> NoAlert]

\* the classification of checkSystemMetric with a strict comparison
Classify_strict(currentValue, threshold) ==
    IF currentValue > threshold THEN "critical" ELSE "ok"

\* the classification of checkSystemMetric
Classify(currentValue, threshold) ==
    IF currentValue >= threshold THEN "critical" ELSE "ok"

\* the message of checkSystemMetric (getSystemAlertMessage /
\* getSystemRecoveryMessage), kept as its framing and its numbers
SystemMessage(alertType, currentValue, threshold) ==
    IF Classify(currentValue, threshold) = "critical"
    THEN <<"is", alertType, currentValue, threshold>>
    ELSE <<"recovered to", alertType, currentValue, threshold>>

\* the classification of UpdateHTTPState
ClassifyHTTP(result) == IF ~result.Success THEN "critical" ELSE "ok"

----------------------------------------------------------------------------
(* What an observer of the evaluations of one key has seen.  It is computed *)
(* from the classifications and the returned alerts only, never from the    *)
(* counters of the AlertState.                                              *)

NoObs ==
    [n |-> 0, cls |-> "none", run |-> 0, critAt |-> {}, evs |-> 0,
     prevRun |-> 0, prevCritAt |-> {}, prevEvs |-> 0,
     lastEv |-> "none", lastType |-> "", lastStamp |-> ZeroTime,
     now |-> ZeroTime, before |-> NewState("", ZeroTime)]

Observe(o, before, cls, alert, now) ==
    LET same == (o.cls = cls)
        run == IF same THEN o.run + 1 ELSE 1
        isCrit == alert.Level = "critical"
        isEv == alert.Level # "none"
    IN  [n |-> o.n + 1,
         cls |-> cls,
         run |-> run,
         critAt |-> (IF same THEN o.critAt ELSE {})
                    \cup (IF isCrit THEN {run} ELSE {}),
         evs |-> (IF same THEN o.evs ELSE 0) + (IF isEv THEN 1 ELSE 0),
         prevRun |-> IF same THEN o.prevRun ELSE o.run,
         prevCritAt |-> IF same THEN o.prevCritAt ELSE o.critAt,
         prevEvs |-> IF same THEN o.prevEvs ELSE o.evs,
         lastEv |-> alert.Level,
         lastType |-> alert.Type,
         lastStamp |-> alert.Timestamp,
         now |-> now,
         before |-> before]

\* an evaluation that counts the sample on the states of all the keys
Evaluate_sharedCounter(acc, alertType, cls, message, now, created) ==
    LET st0 == getOrCreateState(acc.st, alertType, created)
        r == updateState(st0[alertType], alertType, cls, message, now)
        o == IF alertType \in DOMAIN acc.ob THEN acc.ob[alertType] ELSE NoObs
        o1 == Observe(o, st0[alertType], cls, r.alert, now)
    IN  [st |-> [k \in DOMAIN st0 |->
                   IF k = alertType THEN r.state
                   ELSE [st0[k] EXCEPT !.ConsecutiveChecks =
                                          r.state.ConsecutiveChecks]],
         ob |-> IF alertType \in DOMAIN acc.ob
                THEN [acc.ob EXCEPT ![alertType] = o1]
                ELSE acc.ob @@ (alertType :> o1),
         alerts |-> IF r.alert = NoAlert THEN acc.alerts
                    ELSE Append(acc.alerts, r.alert)]

\* one evaluation of a key: getOrCreateState, then updateState.
\* acc = [st, ob, alerts]
Evaluate(acc, alertType, cls, message, now, created) ==
    LET st0 == getOrCreateState(acc.st, alertType, created)
        r == updateState(st0[alertType], alertType, cls, message, now)
        o == IF alertType \in DOMAIN acc.ob THEN acc.ob[alertType] ELSE NoObs
        o1 == Observe(o, st0[alertType], cls, r.alert, now)
    IN  [st |-> [st0 EXCEPT ![alertType] = r.state],
         ob |-> IF alertType \in DOMAIN acc.ob
                THEN [acc.ob EXCEPT ![alertType] = o1]
                ELSE acc.ob @@ (alertType :> o1),
         alerts |-> IF r.alert = NoAlert THEN acc.alerts
                    ELSE Append(acc.alerts, r.alert)]

\* checkSystemMetric on the state of the key
checkSystemMetric(acc, alertType, currentValue, threshold, now, created) ==
    Evaluate(acc, alertType, Classify(currentValue, threshold),
             SystemMessage(alertType, currentValue, threshold), now, created)

\* the loop of UpdateSystemState over the disk paths of the sample (a Go map:
\* any order; the keys of different paths are different)
RECURSIVE DiskLoop(_, _, _, _, _)
DiskLoop(acc, paths, stats, now, created) ==
    IF paths = {} THEN acc
    ELSE LET p == CHOOSE q \in paths : TRUE
         IN  DiskLoop(checkSystemMetric(acc, "disk_" \o p, stats.DiskUsage[p],
                                        DiskThreshold, now, created),
                      paths \ {p}, stats, now, created)

SystemEval(st, ob, stats, now, created) ==
    LET a0 == [st |-> st, ob |-> ob, alerts |-> <<>>]
        a1 == checkSystemMetric(a0, "cpu", stats.CPUUsage, CPUThreshold, now, created)
        a2 == checkSystemMetric(a1, "memory", stats.MemoryUsedPercent,
                                MemoryThreshold, now, created)
    IN  DiskLoop(a2, DOMAIN stats.DiskUsage, stats, now, created)

\* the loop of UpdateHTTPState over the results, all with the same now
RECURSIVE HTTPLoop(_, _, _, _)
HTTPLoop(acc, results, now, created) ==
    IF results = <<>> THEN acc
    ELSE LET result == Head(results)
         IN  HTTPLoop(Evaluate(acc, "http_" \o result.Name, ClassifyHTTP(result),
                               result.Error, now, created),
                      Tail(results), now, created)

HTTPEval(st, ob, results, now, created) ==
    HTTPLoop([st |-> st, ob |-> ob, alerts |-> <<>>], results, now, created)

\* The reading of time.Now() inside getOrCreateState.  It is taken a moment
\* after `now` in the same call, and no later than the `now` of any later
\* call; this clock counts calls and does not tell it apart from `now`.
CreateReading(now) == now

\* UpdateSystemState(stats, thresholds)
UpdateSystemState(stats) ==
    /\ clock + 1 <= MaxClock
    /\ LET now == clock + 1
           r == SystemEval(states, obs, stats, now, CreateReading(now))
       IN  /\ states' = r.st
           /\ obs' = r.ob
           /\ emitted' = r.alerts
           /\ clock' = now

\* UpdateHTTPState(results); last: the last reading of the clock followed
UpdateHTTPStateWithin(results, last) ==
    /\ clock + 1 <= last
    /\ LET now == clock + 1
           r == HTTPEval(states, obs, results, now, CreateReading(now))
       IN  /\ states' = r.st
           /\ obs' = r.ob
           /\ emitted' = r.alerts
           /\ clock' = now

UpdateHTTPState(results) == UpdateHTTPStateWithin(results, MaxClock)

\* collectHTTPStats of main.go: every configured endpoint is probed, the
\* results are appended to the history of the service (its last 100 kept),
\* the state manager evaluates them and the alerts are appended
collectHTTPStats_main(outcome, order) ==
    LET results == CheckEndpointsConcurrent(outcome, order)
        all == httpHistory \o results
    IN  /\ UpdateHTTPState(results)
        /\ httpHistory' = IF Len(all) > 100
                          THEN SubSeq(all, Len(all) - 99, Len(all)) ELSE all
        /\ alerts' = alerts \o emitted'
        /\ probed' = [e \in Endpoints |-> IF outcome[e] THEN 0 ELSE probed[e] + 1]

\* the goroutines that call the state manager: systemMonitoringLoop calls
\* UpdateSystemState, httpMonitoringLoop calls UpdateHTTPState
MapTasks == {"system", "http"}

\* a goroutine outside the state manager
Resting == [pc |-> "idle", items |-> <<>>, now |-> ZeroTime, alerts |-> <<>>]

\* NewStateManager
InitSM ==
    /\ states = <<>>
    /\ obs = <<>>
    /\ clock = 0
    /\ emitted = <<>>
    /\ access = [t \in MapTasks |-> Resting]
    /\ probed = [e \in Endpoints |-> 0]
    /\ offered = <<>>

----------------------------------------------------------------------------
(* The state manager statement by statement.  StateManager has no mutex:    *)
(* getOrCreateState reads the map sm.states and, for a key it does not      *)
(* find, writes it.  A goroutine at "reading" is at the map read of its     *)
(* next key, a goroutine at "writing" at the map write.                     *)

\* the evaluations of one UpdateSystemState call, in the order of the code
RECURSIVE DiskItems(_, _)
DiskItems(paths, stats) ==
    IF paths = {} THEN <<>>
    ELSE LET p == CHOOSE q \in paths : TRUE
         IN  <<[key |-> "disk_" \o p,
                cls |-> Classify(stats.DiskUsage[p], DiskThreshold),
                message |-> SystemMessage("disk_" \o p, stats.DiskUsage[p],
                                          DiskThreshold)]>>
             \o DiskItems(paths \ {p}, stats)

SystemItems(stats) ==
    <<[key |-> "cpu", cls |-> Classify(stats.CPUUsage, CPUThreshold),
       message |-> SystemMessage("cpu", stats.CPUUsage, CPUThreshold)],
      [key |-> "memory", cls |-> Classify(stats.MemoryUsedPercent, MemoryThreshold),
       message |-> SystemMessage("memory", stats.MemoryUsedPercent,
                                 MemoryThreshold)]>>
    \o DiskItems(DOMAIN stats.DiskUsage, stats)

\* the evaluations of one UpdateHTTPState call
HTTPItems(results) ==
    [i \in 1..Len(results) |->
        [key |-> "http_" \o results[i].Name, cls |-> ClassifyHTTP(results[i]),
         message |-> results[i].Error]]

\* a goroutine enters UpdateSystemState or UpdateHTTPState: now := time.Now()
EnterUpdate(t, items) ==
    /\ ~fatal
    /\ access[t].pc = "idle"
    /\ items # <<>>
    /\ clock + 1 <= MaxClock
    /\ clock' = clock + 1
    /\ access' = [access EXCEPT ![t] =
          [pc |-> "reading", items |-> items, now |-> clock + 1, alerts |-> <<>>]]
    /\ UNCHANGED <<states, obs, emitted>>

\* updateState on the key the goroutine holds the state of, then the next
\* key of the call, or the return of the alerts
Advance(t) ==
    LET a == access[t]
        item == Head(a.items)
        r == Evaluate([st |-> states, ob |-> obs, alerts |-> a.alerts],
                      item.key, item.cls, item.message, a.now, CreateReading(a.now))
        rest == Tail(a.items)
    IN  /\ states' = r.st
        /\ obs' = r.ob
        /\ IF rest = <<>>
           THEN /\ access' = [access EXCEPT ![t] = Resting]
                /\ emitted' = r.alerts
           ELSE /\ access' = [access EXCEPT ![t] =
                      [a EXCEPT !.pc = "reading", !.items = rest, !.alerts = r.alerts]]
                /\ UNCHANGED emitted
        /\ UNCHANGED clock

\* getOrCreateState, line 557: state, exists := sm.states[alertType]
Lookup(t) ==
    /\ ~fatal
    /\ access[t].pc = "reading"
    /\ IF Head(access[t].items).key \in DOMAIN states
       THEN Advance(t)
       ELSE /\ access' = [access EXCEPT ![t].pc = "writing"]
            /\ UNCHANGED <<states, obs, emitted, clock>>

\* getOrCreateState, line 568: sm.states[alertType] = state
Insert(t) ==
    /\ ~fatal
    /\ access[t].pc = "writing"
    /\ Advance(t)

\* the accesses to sm.states two goroutines are about to make conflict
Conflict(t, u) ==
    /\ t # u
    /\ access[t].pc = "writing"
    /\ access[u].pc \in {"reading", "writing"}

\* The Go runtime may detect a map write concurrent with another access of
\* the map and stop the process (fatal error: concurrent map read and map
\* write); when it does not, the accesses go on in some order.
MapRaceDetected ==
    /\ ~fatal
    /\ \E t, u \in MapTasks : Conflict(t, u)
    /\ fatal' = TRUE
    /\ UNCHANGED <<config, broken, lastSent, wall, senders, deliveries, lastSend, handed>>

----------------------------------------------------------------------------
(* History store: StorageManager.  Every method holds the lock of its       *)
(* category from its first statement to its return (Lock; defer Unlock), so *)
(* the calls on one category are serialised and each is one step.           *)

DefaultHistorySize == 100

\* NewStorageManager: the capacity
Capacity(n) == IF n <= 0 THEN DefaultHistorySize ELSE n

\* append one entry and drop the newest instead of the oldest
appendOne_dropNewest(history, entry, max) ==
    LET h == Append(history, entry)
    IN  IF Len(h) > max THEN SubSeq(h, 1, max) ELSE h

\* append one entry, then drop the head when over capacity
\* (AddAlert, AddSystemStats, AddHTTPCheckResult)
appendOne(history, entry, max) ==
    LET h == Append(history, entry)
    IN  IF Len(h) > max THEN Tail(h) ELSE h

\* append a batch and keep one entry more than the capacity
appendAll_keepOneMore(history, entries, max) ==
    LET h == history \o entries
    IN  IF Len(h) > max THEN SubSeq(h, Len(h) - max, Len(h)) ELSE h

\* append a batch and keep the first max entries when over capacity
appendAll_keepOldest(history, entries, max) ==
    LET h == history \o entries
    IN  IF Len(h) > max THEN SubSeq(h, 1, max) ELSE h

\* append a batch, then keep the last max entries when over capacity
\* (AddAlerts, AddDockerContainerStats)
appendAll(history, entries, max) ==
    LET h == history \o entries
    IN  IF Len(h) > max THEN SubSeq(h, Len(h) - max + 1, Len(h)) ELSE h

NoRet == [op |-> "none", val |-> <<>>]

\* the entries a caller appends are numbered in the order of their arrival
Fresh(cat, n) == [i \in 1..n |-> Len(appended[cat]) + i]

MaxAppends == HistorySize + MaxOverflow

CanAppend(cat, n) == Len(appended[cat]) + n <= MaxAppends

Log(cat, entries) == [appended EXCEPT ![cat] = @ \o entries]

AddAlert(alert) ==
    /\ alerts' = appendOne(alerts, alert, maxHistorySize)
    /\ appended' = Log("alerts", <<alert>>)
    /\ UNCHANGED <<statsHistory, httpHistory, dockerHistory, maxHistorySize, ret>>

AddAlerts(as) ==
    /\ IF Len(as) = 0
       THEN UNCHANGED alerts
       ELSE alerts' = appendAll(alerts, as, maxHistorySize)
    /\ appended' = Log("alerts", as)
    /\ UNCHANGED <<statsHistory, httpHistory, dockerHistory, maxHistorySize, ret>>

\* a clear that empties the system samples as well
ClearAlerts_allCategories ==
    /\ alerts' = <<>>
    /\ statsHistory' = <<>>
    /\ appended' = [appended EXCEPT !["alerts"] = <<>>]
    /\ UNCHANGED <<httpHistory, dockerHistory, maxHistorySize, ret>>

ClearAlerts ==
    /\ alerts' = <<>>
    /\ appended' = [appended EXCEPT !["alerts"] = <<>>]
    /\ UNCHANGED <<statsHistory, httpHistory, dockerHistory, maxHistorySize, ret>>

AddSystemStats(stats) ==
    /\ statsHistory' = appendOne(statsHistory, stats, maxHistorySize)
    /\ appended' = Log("stats", <<stats>>)
    /\ UNCHANGED <<alerts, httpHistory, dockerHistory, maxHistorySize, ret>>

AddHTTPCheckResult(result) ==
    /\ httpHistory' = appendOne(httpHistory, result, maxHistorySize)
    /\ appended' = Log("http", <<result>>)
    /\ UNCHANGED <<alerts, statsHistory, dockerHistory, maxHistorySize, ret>>

AddDockerContainerStats(stats) ==
    /\ IF Len(stats) = 0
       THEN UNCHANGED dockerHistory
       ELSE dockerHistory' = appendAll(dockerHistory, stats, maxHistorySize)
    /\ appended' = Log("docker", stats)
    /\ UNCHANGED <<alerts, statsHistory, httpHistory, maxHistorySize, ret>>

\* the reads return a copy of the category
Read(op, val) ==
    /\ ret' = [op |-> op, val |-> val]
    /\ UNCHANGED <<alerts, statsHistory, httpHistory, dockerHistory,
                   maxHistorySize, appended>>

GetAlerts == Read("GetAlerts", alerts)

GetSystemStats == Read("GetSystemStats", statsHistory)

\* a read of the oldest sample kept
GetLatestSystemStats_oldest ==
    Read("GetLatestSystemStats",
         IF Len(statsHistory) = 0 THEN <<>> ELSE <<statsHistory[1]>>)

GetLatestSystemStats ==
    Read("GetLatestSystemStats",
         IF Len(statsHistory) = 0 THEN <<>>
         ELSE <<statsHistory[Len(statsHistory)]>>)

GetHTTPCheckResults == Read("GetHTTPCheckResults", httpHistory)

GetDockerContainerStats == Read("GetDockerContainerStats", dockerHistory)

GetStatus ==
    Read("GetStatus",
         [alerts_count |-> Len(alerts),
          stats_history_count |-> Len(statsHistory),
          http_history_count |-> Len(httpHistory),
          docker_history_count |-> Len(dockerHistory),
          max_history_size |-> maxHistorySize])

\* the four mutexes, by the category each guards
LockNames == {"alerts", "stats", "http", "docker"}

\* a sync.RWMutex nobody holds or waits for
Unlocked == [writer |-> "none", readers |-> {}, pending |-> {}]

\* the goroutines that call the store
Callers == {"g1", "g2", "g3"}

NoCall == [op |-> "none", mode |-> "none", need |-> <<>>, held |-> {}]

\* the calls followed lock by lock: the mutexes each takes, in the order
\* of the code, and how it takes them (Lock or RLock)
StoreOps ==
    {[op |-> "AddAlert", mode |-> "Lock", need |-> <<"alerts">>],
     [op |-> "ClearAlerts", mode |-> "Lock", need |-> <<"alerts">>],
     [op |-> "AddSystemStats", mode |-> "Lock", need |-> <<"stats">>],
     [op |-> "GetAlerts", mode |-> "RLock", need |-> <<"alerts">>],
     [op |-> "GetSystemStats", mode |-> "RLock", need |-> <<"stats">>],
     [op |-> "GetStatus", mode |-> "RLock",
      need |-> <<"alerts", "stats", "http", "docker">>]}

\* a goroutine calls a method of the store
CallStore(g, o) ==
    /\ callers[g] = NoCall
    /\ called < MaxStoreCalls
    /\ called' = called + 1
    /\ callers' = [callers EXCEPT ![g] =
                     [op |-> o.op, mode |-> o.mode, need |-> o.need, held |-> {}]]
    /\ UNCHANGED mu

\* the mutex the goroutine is to take next
Wanted(g) == Head(callers[g].need)

\* RWMutex.RLock returns: no writer holds the mutex and none is pending
CanRLock(g) ==
    /\ callers[g].mode = "RLock"
    /\ callers[g].need # <<>>
    /\ mu[Wanted(g)].writer = "none"
    /\ mu[Wanted(g)].pending = {}

RLock(g) ==
    /\ CanRLock(g)
    /\ mu' = [mu EXCEPT ![Wanted(g)].readers = @ \cup {g}]
    /\ callers' = [callers EXCEPT ![g].need = Tail(@),
                                  ![g].held = @ \cup {Wanted(g)}]
    /\ UNCHANGED called

\* RWMutex.Lock is called: from now on new readers wait
LockPending(g) ==
    /\ callers[g].mode = "Lock"
    /\ callers[g].need # <<>>
    /\ g \notin mu[Wanted(g)].pending
    /\ mu' = [mu EXCEPT ![Wanted(g)].pending = @ \cup {g}]
    /\ UNCHANGED <<callers, called>>

\* RWMutex.Lock returns: the readers have left and no writer holds the mutex
CanLock(g) ==
    /\ callers[g].mode = "Lock"
    /\ callers[g].need # <<>>
    /\ g \in mu[Wanted(g)].pending
    /\ mu[Wanted(g)].writer = "none"
    /\ mu[Wanted(g)].readers = {}

Lock(g) ==
    /\ CanLock(g)
    /\ mu' = [mu EXCEPT ![Wanted(g)].pending = @ \ {g},
                        ![Wanted(g)].writer = g]
    /\ callers' = [callers EXCEPT ![g].need = Tail(@),
                                  ![g].held = @ \cup {Wanted(g)}]
    /\ UNCHANGED called

\* the body of the method, under the locks it took
Body(op) ==
    CASE op = "AddAlert" -> AddAlert(Fresh("alerts", 1)[1])
      [] op = "ClearAlerts" -> ClearAlerts
      [] op = "AddSystemStats" -> AddSystemStats(Fresh("stats", 1)[1])
      [] op = "GetAlerts" -> GetAlerts
      [] op = "GetSystemStats" -> GetSystemStats
      [] op = "GetStatus" -> GetStatus

\* the method runs its body and returns with its locks still held
Return_keepsLocks(g) ==
    /\ callers[g].op # "none"
    /\ callers[g].need = <<>>
    /\ Body(callers[g].op)
    /\ UNCHANGED mu
    /\ callers' = [callers EXCEPT ![g] = NoCall]
    /\ UNCHANGED called

\* the method runs its body and returns: the deferred Unlock / RUnlock
Return(g) ==
    /\ callers[g].op # "none"
    /\ callers[g].need = <<>>
    /\ Body(callers[g].op)
    /\ mu' = [c \in LockNames |->
                IF c \in callers[g].held
                THEN [mu[c] EXCEPT !.writer = IF @ = g THEN "none" ELSE @,
                                   !.readers = @ \ {g}]
                ELSE mu[c]]
    /\ callers' = [callers EXCEPT ![g] = NoCall]
    /\ UNCHANGED called

\* NewStorageManager(n)
InitStore(n) ==
    /\ alerts = <<>>
    /\ statsHistory = <<>>
    /\ httpHistory = <<>>
    /\ dockerHistory = <<>>
    /\ maxHistorySize = Capacity(n)
    /\ appended = [cat \in {"alerts", "stats", "http", "docker"} |-> <<>>]
    /\ ret = NoRet
    /\ scribbled = {}
    /\ mu = [c \in LockNames |-> Unlocked]
    /\ callers = [g \in Callers |-> NoCall]
    /\ called = 0

----------------------------------------------------------------------------
(* Readers of the history store.  A read hands the caller a new slice (or a *)
(* new struct) filled by copy(): the scalar fields of an entry are copied,  *)
(* the DiskUsage map of a SystemStats is a reference to the map the store   *)
(* holds.  A stored sample is named by its number, and so is its map.       *)

\* the names of the endpoints whose results are stored
StoredNames == {"api", "web"}

\* a result of the endpoint `name`, numbered in the order of arrival
FreshResult(name) == [Id |-> Len(appended["http"]) + 1, Name |-> name]

Stored ==
    Len(appended["alerts"]) + Len(appended["stats"])
    + Len(appended["http"]) + Len(appended["docker"])

CanStore(n) == Stored + n <= MaxStored

\* GetLatestHTTPCheckResult: the loop from the newest result to the oldest
RECURSIVE LatestNamed(_, _, _)
LatestNamed(history, name, i) ==
    IF i < 1 THEN <<>>
    ELSE IF history[i].Name = name THEN <<history[i]>>
    ELSE LatestNamed(history, name, i - 1)

GetLatestHTTPCheckResult(name) ==
    Read("GetLatestHTTPCheckResult", LatestNamed(httpHistory, name, Len(httpHistory)))

SystemReads == {"GetSystemStats", "GetLatestSystemStats"}

HTTPReads == {"GetHTTPCheckResults", "GetLatestHTTPCheckResult"}

\* what the caller writes over an element of the slice it was handed
Overwritten == IF ret.op \in HTTPReads THEN [Id |-> 0, Name |-> ""] ELSE 0

\* the caller assigns to an element of the slice, or to the struct, it holds
MutateReturned(i) ==
    /\ ret.op # "none"
    /\ i \in 1..Len(ret.val)
    /\ ret.val[i] # Overwritten
    /\ ret' = [ret EXCEPT !.val[i] = Overwritten]
    /\ UNCHANGED <<alerts, statsHistory, httpHistory, dockerHistory,
                   maxHistorySize, appended, scribbled>>

\* the caller writes into the DiskUsage map of a SystemStats it holds
MutateReturnedDiskUsage(i) ==
    /\ ret.op \in SystemReads
    /\ i \in 1..Len(ret.val)
    /\ ret.val[i] # Overwritten
    /\ ret.val[i] \notin scribbled
    /\ scribbled' = scribbled \cup {ret.val[i]}
    /\ UNCHANGED storeVars

\* system samples as a caller sees them: the sample and the content of its map
SystemView(history) ==
    [i \in 1..Len(history) |->
        [sample |-> history[i],
         DiskUsage |-> IF history[i] \in scribbled THEN "overwritten" ELSE "collected"]]

\* what the reads of the store return now
StoreReturns ==
    [alerts |-> alerts, stats |-> SystemView(statsHistory), http |-> httpHistory,
     docker |-> dockerHistory]

\* the value the last read handed to its caller, as the caller sees it now
Returned == IF ret.op \in SystemReads THEN SystemView(ret.val) ELSE ret.val

----------------------------------------------------------------------------
(* Alert dispatcher: AlertManager (alert/alert.go, first file).  SendAlert  *)
(* takes no lock: a goroutine in SendAlert is followed through its three    *)
(* stages (the checks, the channel sends, the write of lastSent), and other *)
(* goroutines and the clock may move between them.                          *)

Channels == <<"email", "mailgun", "telegram">>

\* the goroutine of alertProcessingLoop, and any other caller of the manager
Senders == {"alerts", "caller"}

\* the alerts handed to the dispatcher
DispatchAlerts ==
    {[Type |-> "cpu", Level |-> "critical"],
     [Type |-> "cpu", Level |-> "warning"],
     [Type |-> "http_api", Level |-> "critical"]}

\* the configurations explored (Cooldown in minutes)
DispatchConfigs ==
    {[Enabled |-> TRUE, AlertLevels |-> <<>>, Cooldown |-> 2,
      Email |-> TRUE, Mailgun |-> TRUE, Telegram |-> FALSE],
     [Enabled |-> TRUE, AlertLevels |-> <<"critical">>, Cooldown |-> 0,
      Email |-> FALSE, Mailgun |-> TRUE, Telegram |-> TRUE],
     [Enabled |-> FALSE, AlertLevels |-> <<>>, Cooldown |-> 2,
      Email |-> TRUE, Mailgun |-> FALSE, Telegram |-> FALSE]}

\* the transports that are down during a behaviour: none, the first enabled
\* channel, or every channel
Outages(cfg) ==
    IF ~cfg.Enabled THEN {{}}
    ELSE IF cfg.Email THEN {{}, {"email"}, {"email", "mailgun", "telegram"}}
    ELSE {{"email", "mailgun", "telegram"}}

ChannelEnabled(cfg, c) ==
    CASE c = "email" -> cfg.Email
      [] c = "mailgun" -> cfg.Mailgun
      [] c = "telegram" -> cfg.Telegram

\* shouldSendLevel without the comparison against the configured levels
shouldSendLevel_anyLevel(cfg, level) == TRUE

shouldSendLevel(cfg, level) ==
    IF Len(cfg.AlertLevels) = 0 THEN TRUE
    ELSE \E i \in 1..Len(cfg.AlertLevels) : cfg.AlertLevels[i] = level

\* time.Minute in units of the wall clock
Minute == 1

\* shouldSendCooldown measuring from the recorded sends of every type
shouldSendCooldown_anyType(cfg, sent, alert, now) ==
    IF cfg.Cooldown <= 0 THEN TRUE
    ELSE \A type \in DOMAIN sent : now - sent[type] >= cfg.Cooldown * Minute

shouldSendCooldown(cfg, sent, alert, now) ==
    IF cfg.Cooldown <= 0 THEN TRUE
    ELSE IF alert.Type \notin DOMAIN sent THEN TRUE
    ELSE now - sent[alert.Type] >= cfg.Cooldown * Minute

\* the checks at the head of SendAlert without the test of Enabled
PassesChecks_ignoresEnabled(cfg, sent, alert, now) ==
    /\ shouldSendLevel(cfg, alert.Level)
    /\ shouldSendCooldown(cfg, sent, alert, now)

\* the three checks at the head of SendAlert
PassesChecks(cfg, sent, alert, now) ==
    /\ cfg.Enabled
    /\ shouldSendLevel(cfg, alert.Level)
    /\ shouldSendCooldown(cfg, sent, alert, now)

\* the channel sends of SendAlert given up at the first failure
RECURSIVE SendChannels_stopAtFailure(_, _, _, _)
SendChannels_stopAtFailure(cfg, failing, i, acc) ==
    IF i > Len(Channels) \/ acc.errors # <<>> THEN acc
    ELSE LET c == Channels[i]
         IN  SendChannels_stopAtFailure(cfg, failing, i + 1,
                IF ChannelEnabled(cfg, c)
                THEN [attempted |-> Append(acc.attempted, c),
                      errors |-> IF c \in failing
                                 THEN Append(acc.errors, c) ELSE acc.errors]
                ELSE acc)

\* the channel sends of SendAlert: every enabled channel in turn; `failing`
\* are the channels whose transport fails this time
RECURSIVE SendChannels(_, _, _, _)
SendChannels(cfg, failing, i, acc) ==
    IF i > Len(Channels) THEN acc
    ELSE LET c == Channels[i]
         IN  SendChannels(cfg, failing, i + 1,
                IF ChannelEnabled(cfg, c)
                THEN [attempted |-> Append(acc.attempted, c),
                      errors |-> IF c \in failing
                                 THEN Append(acc.errors, c) ELSE acc.errors]
                ELSE acc)

\* result: what the latest call of the goroutine returned (nil or an error)
Idle == [pc |-> "idle", op |-> "none", queue |-> <<>>, attempted |-> <<>>,
         failing |-> {}, errors |-> <<>>, batchErrors |-> <<>>, result |-> "none"]

NoSend == [by |-> "none", op |-> "none", alert |-> [Type |-> "", Level |-> ""],
           attempted |-> <<>>,
           failing |-> {}, errors |-> <<>>]

NoGap == 1000

\* the record of one more delivery of the type at the time
Delivered(del, type, at) ==
    IF type \in DOMAIN del
    THEN [del EXCEPT ![type] =
             [last |-> at,
              minGap |-> IF at - del[type].last < @.minGap
                         THEN at - del[type].last ELSE @.minGap]]
    ELSE del @@ (type :> [last |-> at, minGap |-> NoGap])

EnabledChannels(cfg) ==
    {Channels[i] : i \in {j \in 1..Len(Channels) : ChannelEnabled(cfg, Channels[j])}}

Running == ~fatal

\* SendAlerts that returns at the first alert whose SendAlert failed
AfterAlert_stopsOnError(g, err) ==
    LET s == senders[g]
        rest == Tail(s.queue)
    IN  IF err # <<>>
        THEN [Idle EXCEPT !.result = "error"]
        ELSE IF rest # <<>>
        THEN [s EXCEPT !.pc = "check", !.queue = rest, !.attempted = <<>>,
                       !.failing = {}, !.errors = <<>>]
        ELSE [Idle EXCEPT !.result = IF s.batchErrors = <<>> THEN "nil" ELSE "error"]

\* the return of SendAlert inside the loop of SendAlerts, or to the caller
\* of SendAlert: err is the list of channel names of the error, <<>> for nil
AfterAlert(g, err) ==
    LET s == senders[g]
        rest == Tail(s.queue)
        batchErrors == IF err = <<>> THEN s.batchErrors
                       ELSE Append(s.batchErrors, err)
    IN  IF rest # <<>>
        THEN [s EXCEPT !.pc = "check", !.queue = rest, !.attempted = <<>>,
                       !.failing = {}, !.errors = <<>>,
                       !.batchErrors = batchErrors]
        ELSE [Idle EXCEPT !.result = IF batchErrors = <<>> THEN "nil" ELSE "error"]

\* a goroutine calls SendAlert(alert) or SendAlerts(batch)
Call(g, op, batch) ==
    /\ Running
    /\ handed + Len(batch) <= MaxHanded
    /\ senders[g].pc = "idle"
    /\ handed' = handed + Len(batch)
    /\ senders' = [senders EXCEPT ![g] =
          IF batch = <<>> THEN [Idle EXCEPT !.result = "nil"]
          ELSE [Idle EXCEPT !.pc = "check", !.op = op, !.queue = batch]]
    /\ UNCHANGED <<config, broken, lastSent, wall, deliveries, lastSend, fatal>>

\* the checks of SendAlert with the time of a refused alert recorded as a send
Check_stampsSkipped(g) ==
    /\ Running
    /\ senders[g].pc = "check"
    /\ LET alert == Head(senders[g].queue)
       IN  IF PassesChecks(config, lastSent, alert, wall)
           THEN /\ senders' = [senders EXCEPT ![g].pc = "send"]
                /\ UNCHANGED lastSent
           ELSE /\ senders' = [senders EXCEPT ![g] = AfterAlert(g, <<>>)]
                /\ lastSent' = IF alert.Type \in DOMAIN lastSent
                               THEN [lastSent EXCEPT ![alert.Type] = wall]
                               ELSE lastSent @@ (alert.Type :> wall)
    /\ UNCHANGED <<config, broken, wall, deliveries, lastSend, handed, fatal>>

\* SendAlert, lines 35-47: the enabled, level and cooldown checks
Check(g) ==
    /\ Running
    /\ senders[g].pc = "check"
    /\ IF PassesChecks(config, lastSent, Head(senders[g].queue), wall)
       THEN senders' = [senders EXCEPT ![g].pc = "send"]
       ELSE senders' = [senders EXCEPT ![g] = AfterAlert(g, <<>>)]
    /\ UNCHANGED <<config, broken, lastSent, wall, deliveries, lastSend, handed, fatal>>

\* SendAlert, lines 49-70: the sends on the enabled channels
Deliver(g) ==
    /\ Running
    /\ senders[g].pc = "send"
    /\ LET failing == broken
           r == SendChannels(config, failing, 1,
                             [attempted |-> <<>>, errors |-> <<>>])
       IN  senders' = [senders EXCEPT ![g].pc = "record",
                                      ![g].attempted = r.attempted,
                                      ![g].failing = failing \cap EnabledChannels(config),
                                      ![g].errors = r.errors]
    /\ deliveries' = Delivered(deliveries, Head(senders[g].queue).Type, wall)
    /\ UNCHANGED <<config, broken, lastSent, wall, lastSend, handed, fatal>>

\* the return of SendAlert with lastSent written only after a send without
\* error
Record_onlyOnSuccess(g) ==
    /\ Running
    /\ senders[g].pc = "record"
    /\ LET alert == Head(senders[g].queue)
       IN  /\ lastSent' = IF senders[g].errors # <<>> THEN lastSent
                          ELSE IF alert.Type \in DOMAIN lastSent
                          THEN [lastSent EXCEPT ![alert.Type] = wall]
                          ELSE lastSent @@ (alert.Type :> wall)
           /\ lastSend' = [by |-> g, op |-> senders[g].op, alert |-> alert,
                           attempted |-> senders[g].attempted,
                           failing |-> senders[g].failing,
                           errors |-> senders[g].errors]
    /\ senders' = [senders EXCEPT ![g] = AfterAlert(g, senders[g].errors)]
    /\ UNCHANGED <<config, broken, wall, deliveries, handed, fatal>>

\* SendAlert, lines 72-80: the write of lastSent and the return
Record(g) ==
    /\ Running
    /\ senders[g].pc = "record"
    /\ LET alert == Head(senders[g].queue)
       IN  /\ lastSent' = IF alert.Type \in DOMAIN lastSent
                          THEN [lastSent EXCEPT ![alert.Type] = wall]
                          ELSE lastSent @@ (alert.Type :> wall)
           /\ lastSend' = [by |-> g, op |-> senders[g].op, alert |-> alert,
                           attempted |-> senders[g].attempted,
                           failing |-> senders[g].failing,
                           errors |-> senders[g].errors]
    /\ senders' = [senders EXCEPT ![g] = AfterAlert(g, senders[g].errors)]
    /\ UNCHANGED <<config, broken, wall, deliveries, handed, fatal>>

\* Two goroutines are about to write the unguarded lastSent map: the Go
\* runtime may detect the concurrent map writes and stop the process.
ConcurrentMapWrites ==
    /\ Running
    /\ \E g, h \in Senders :
          g # h /\ senders[g].pc = "record" /\ senders[h].pc = "record"
    /\ fatal' = TRUE
    /\ UNCHANGED <<config, broken, lastSent, wall, senders, deliveries, lastSend, handed>>

\* a minute passes.  Until the first delivery the dispatcher holds no time
\* stamp, so the specifications let the clock run from the first delivery on.
Tick ==
    /\ Running
    /\ wall < MaxWall
    /\ wall' = wall + 1
    /\ UNCHANGED <<config, broken, lastSent, senders, deliveries, lastSend, handed, fatal>>

\* NewAlertManager(config, appName), and the state of the transports
InitDispatch(cfg, down) ==
    /\ config = cfg
    /\ broken = down
    /\ lastSent = <<>>
    /\ wall = 1
    /\ senders = [g \in Senders |-> Idle]
    /\ deliveries = <<>>
    /\ lastSend = NoSend
    /\ handed = 0
    /\ fatal = FALSE

----------------------------------------------------------------------------
(* Orchestrator: MonitorService (server package).  Each task is followed    *)
(* through its loop: blocked in select, then in the cycle a tick started.   *)

TaskNames == {"system", "http", "docker", "alerts"}

\* the alert of nil, for the functions that return an error
NoError == "nil"

\* strings.ToUpper on the methods configured
ToUpper(str) ==
    CASE str = "get" -> "GET"
      [] str = "fetch" -> "FETCH"
      [] OTHER -> str

ValidMethods == {"GET", "POST", "PUT", "DELETE", "HEAD", "OPTIONS", "PATCH"}

\* a URL is the sequence of its scheme and its rest, <<>> when empty
HasPrefix(url, schemes) == Len(url) > 0 /\ url[1] \in schemes

\* HTTPMonitor.ValidateHTTPCheck
ValidateHTTPCheck(check) ==
    IF check.URL = <<>> THEN "URL cannot be empty"
    ELSE IF ~HasPrefix(check.URL, {"http://"}) /\ ~HasPrefix(check.URL, {"https://"})
    THEN "URL must start with http:// or https://"
    ELSE IF check.Method = "" THEN "HTTP method cannot be empty"
    ELSE IF ToUpper(check.Method) \notin ValidMethods THEN "invalid HTTP method"
    ELSE IF check.Timeout <= 0 THEN "timeout must be positive"
    ELSE IF check.ExpectedStatus < 100 \/ check.ExpectedStatus >= 600
    THEN "expected status code must be between 100 and 599"
    ELSE IF check.CheckInterval <= 0 THEN "check interval must be positive"
    ELSE NoError

\* ValidateConfig without the checks of the Telegram fields
ValidateConfig_noTelegram(cfg, cred) ==
    IF ~cfg.Enabled THEN "nil"
    ELSE IF cfg.Email /\ cred.Email.SMTPHost = ""
    THEN "SMTP host is required for email alerts"
    ELSE IF cfg.Email /\ cred.Email.SMTPPort <= 0 THEN "SMTP port must be positive"
    ELSE IF cfg.Email /\ cred.Email.From = "" THEN "from email address is required"
    ELSE IF cfg.Email /\ cred.Email.To = "" THEN "to email address is required"
    ELSE IF cfg.Mailgun /\ cred.Mailgun.APIKey = ""
    THEN "API key is required for Mailgun alerts"
    ELSE IF cfg.Mailgun /\ cred.Mailgun.Domain = ""
    THEN "domain is required for Mailgun alerts"
    ELSE IF cfg.Mailgun /\ cred.Mailgun.From = ""
    THEN "from email address is required for Mailgun"
    ELSE IF cfg.Mailgun /\ cred.Mailgun.To = ""
    THEN "to email address is required for Mailgun"
    ELSE IF cfg.Enabled /\ ~cfg.Email /\ ~cfg.Mailgun /\ ~cfg.Telegram
    THEN "alerting is enabled but no alerting methods are configured"
    ELSE "nil"

\* AlertManager.ValidateConfig: cfg holds the Enabled flags, cred the fields
\* of the three channels
ValidateConfig(cfg, cred) ==
    IF ~cfg.Enabled THEN NoError
    ELSE IF cfg.Email /\ cred.Email.SMTPHost = ""
    THEN "SMTP host is required for email alerts"
    ELSE IF cfg.Email /\ cred.Email.SMTPPort <= 0 THEN "SMTP port must be positive"
    ELSE IF cfg.Email /\ cred.Email.From = "" THEN "from email address is required"
    ELSE IF cfg.Email /\ cred.Email.To = "" THEN "to email address is required"
    ELSE IF cfg.Mailgun /\ cred.Mailgun.APIKey = ""
    THEN "API key is required for Mailgun alerts"
    ELSE IF cfg.Mailgun /\ cred.Mailgun.Domain = ""
    THEN "domain is required for Mailgun alerts"
    ELSE IF cfg.Mailgun /\ cred.Mailgun.From = ""
    THEN "from email address is required for Mailgun"
    ELSE IF cfg.Mailgun /\ cred.Mailgun.To = ""
    THEN "to email address is required for Mailgun"
    ELSE IF cfg.Telegram /\ cred.Telegram.BotToken = ""
    THEN "bot token is required for Telegram alerts"
    ELSE IF cfg.Telegram /\ cred.Telegram.ChatID = ""
    THEN "chat ID is required for Telegram alerts"
    ELSE IF cfg.Enabled /\ ~cfg.Email /\ ~cfg.Mailgun /\ ~cfg.Telegram
    THEN "alerting is enabled but no alerting methods are configured"
    ELSE NoError

\* the endpoint checks a deployment can configure: a valid one, and one for
\* every way ValidateHTTPCheck refuses
GoodCheck ==
    [URL |-> <<"https://", "example.com">>, Method |-> "get", Timeout |-> 10,
     ExpectedStatus |-> 200, CheckInterval |-> 30]

HTTPChecks ==
    {GoodCheck,
     [GoodCheck EXCEPT !.URL = <<>>],
     [GoodCheck EXCEPT !.URL = <<"ftp://", "example.com">>],
     [GoodCheck EXCEPT !.Method = ""],
     [GoodCheck EXCEPT !.Method = "fetch"],
     [GoodCheck EXCEPT !.Timeout = 0],
     [GoodCheck EXCEPT !.ExpectedStatus = 99],
     [GoodCheck EXCEPT !.ExpectedStatus = 600],
     [GoodCheck EXCEPT !.CheckInterval = 0]}

\* the fields of the channels: all set, and with one required field missing
GoodCredentials ==
    [Email |-> [SMTPHost |-> "smtp.example.com", SMTPPort |-> 587,
                From |-> "monic@example.com", To |-> "ops@example.com"],
     Mailgun |-> [APIKey |-> "key", Domain |-> "mg.example.com",
                  From |-> "monic@example.com", To |-> "ops@example.com"],
     Telegram |-> [BotToken |-> "token", ChatID |-> "42"]]

Credentials ==
    {GoodCredentials,
     [GoodCredentials EXCEPT !.Email.SMTPHost = ""],
     [GoodCredentials EXCEPT !.Email.SMTPPort = 0],
     [GoodCredentials EXCEPT !.Email.From = ""],
     [GoodCredentials EXCEPT !.Email.To = ""],
     [GoodCredentials EXCEPT !.Mailgun.APIKey = ""],
     [GoodCredentials EXCEPT !.Mailgun.Domain = ""],
     [GoodCredentials EXCEPT !.Mailgun.From = ""],
     [GoodCredentials EXCEPT !.Mailgun.To = ""],
     [GoodCredentials EXCEPT !.Telegram.BotToken = ""],
     [GoodCredentials EXCEPT !.Telegram.ChatID = ""]}

\* what Start can find: the endpoint check, the fields of the channels, and
\* whether the container monitor is enabled and its Initialize succeeds
Environments ==
    [check : HTTPChecks, credentials : Credentials,
     dockerEnabled : BOOLEAN, dockerInit : BOOLEAN]

\* CheckEndpoint: the result of a probe; Name is never set
ProbeResults ==
    {[Name |-> "", Success |-> TRUE, Error |-> ""],
     [Name |-> "", Success |-> FALSE, Error |-> "request failed"]}

\* the listings of the container runtime
ContainerListings ==
    {<<[Name |-> "web", Running |-> TRUE, ExitCode |-> 0, Error |-> ""]>>,
     <<[Name |-> "web", Running |-> FALSE, ExitCode |-> 0, Error |-> ""]>>}

\* CheckContainerStatus: the alerts of one container
ContainerAlerts(c, now) ==
    (IF ~c.Running
     THEN <<[Type |-> "docker", Message |-> <<"is stopped", c.Name>>,
             Level |-> "warning", Timestamp |-> now]>>
     ELSE <<>>)
    \o (IF c.ExitCode # 0 /\ c.ExitCode # 137
        THEN <<[Type |-> "docker", Message |-> <<"exited with error code", c.Name>>,
                Level |-> "critical", Timestamp |-> now]>>
        ELSE <<>>)
    \o (IF c.Error # ""
        THEN <<[Type |-> "docker", Message |-> <<"has error", c.Name>>,
                Level |-> "critical", Timestamp |-> now]>>
        ELSE <<>>)

RECURSIVE CheckContainerStatus(_, _)
CheckContainerStatus(stats, now) ==
    IF stats = <<>> THEN <<>>
    ELSE ContainerAlerts(Head(stats), now) \o CheckContainerStatus(Tail(stats), now)

\* Start with one goroutine launched beyond the count of the WaitGroup
Start_shortCount ==
    /\ svc = "new"
    /\ IF \/ ValidateHTTPCheck(env.check) # NoError
          \/ ValidateConfig(config, env.credentials) # NoError
       THEN /\ svc' = "failed"
            /\ UNCHANGED <<wg, tasks>>
       ELSE LET docker == env.dockerEnabled /\ env.dockerInit
            IN  /\ svc' = "running"
                /\ wg' = wg + (IF docker THEN 1 ELSE 0) + 2
                /\ tasks' = [t \in TaskNames |->
                               IF t = "docker" /\ ~docker THEN "none" ELSE "select"]
    /\ UNCHANGED <<env, stopChan, cycles, pending, skipped>>

\* Start that launches the container task without looking at Initialize
Start_dockerUnchecked ==
    /\ svc = "new"
    /\ IF \/ ValidateHTTPCheck(env.check) # NoError
          \/ ValidateConfig(config, env.credentials) # NoError
       THEN /\ svc' = "failed"
            /\ UNCHANGED <<wg, tasks>>
       ELSE LET docker == env.dockerEnabled
            IN  /\ svc' = "running"
                /\ wg' = wg + (IF docker THEN 1 ELSE 0) + 3
                /\ tasks' = [t \in TaskNames |->
                               IF t = "docker" /\ ~docker THEN "none" ELSE "select"]
    /\ UNCHANGED <<env, stopChan, cycles, pending, skipped>>

\* MonitorService.Start
Start ==
    /\ svc = "new"
    /\ IF \/ ValidateHTTPCheck(env.check) # NoError
          \/ ValidateConfig(config, env.credentials) # NoError
       THEN /\ svc' = "failed"
            /\ UNCHANGED <<wg, tasks>>
       ELSE LET docker == env.dockerEnabled /\ env.dockerInit
            IN  /\ svc' = "running"
                /\ wg' = wg + (IF docker THEN 1 ELSE 0) + 3
                /\ tasks' = [t \in TaskNames |->
                               IF t = "docker" /\ ~docker THEN "none" ELSE "select"]
    /\ UNCHANGED <<env, stopChan, cycles, pending, skipped>>

\* MonitorService.Stop: close(ms.stopChan)
StopClose ==
    /\ svc = "running"
    /\ stopChan' = "closed"
    /\ svc' = "waiting"
    /\ UNCHANGED <<env, wg, tasks, cycles, pending, skipped>>

\* MonitorService.Stop: ms.wg.Wait() returns
StopReturn ==
    /\ svc = "waiting"
    /\ wg = 0
    /\ svc' = "stopped"
    /\ UNCHANGED <<env, stopChan, wg, tasks, cycles, pending, skipped>>

\* a task that also takes the stop signal between its tick and its cycle
TaskExit_midCycle(t) ==
    /\ Running
    /\ tasks[t] \in {"select", "cycle"}
    /\ stopChan = "closed"
    /\ tasks' = [tasks EXCEPT ![t] = "exited"]
    /\ wg' = wg - 1
    /\ UNCHANGED <<env, svc, stopChan, cycles, pending, skipped>>

\* a loop that returns on the stop signal without wg.Done()
TaskExit_keepsCount(t) ==
    /\ Running
    /\ tasks[t] = "select"
    /\ stopChan = "closed"
    /\ tasks' = [tasks EXCEPT ![t] = "exited"]
    /\ wg' = wg
    /\ UNCHANGED <<env, svc, stopChan, cycles, pending, skipped>>

\* a loop takes the case <-ms.stopChan: return, and the deferred wg.Done()
TaskExit(t) ==
    /\ Running
    /\ tasks[t] = "select"
    /\ stopChan = "closed"
    /\ tasks' = [tasks EXCEPT ![t] = "exited"]
    /\ wg' = wg - 1
    /\ UNCHANGED <<env, svc, stopChan, cycles, pending, skipped>>

\* a loop takes the case <-ticker.C (select picks any ready case); the
\* ticks followed are at most max
TaskTickWithin(t, max) ==
    /\ Running
    /\ tasks[t] = "select"
    /\ cycles < max
    /\ tasks' = [tasks EXCEPT ![t] = "cycle"]
    /\ cycles' = cycles + 1
    /\ UNCHANGED <<env, svc, stopChan, wg, pending, skipped>>

TaskTick(t) == TaskTickWithin(t, MaxCycles)

\* the cycle returns to the loop; err: it returned on the error of a collaborator
EndCycle(t, err) ==
    /\ tasks' = [tasks EXCEPT ![t] = "select"]
    /\ skipped' = IF err THEN skipped \cup {t} ELSE skipped \ {t}
    /\ UNCHANGED <<env, svc, stopChan, wg, cycles, pending>>

\* collectSystemStats that stores the sample it was handed with the error
CollectSystemError_stores ==
    /\ Running
    /\ tasks["system"] = "cycle"
    /\ EndCycle("system", TRUE)
    /\ statsHistory' = appendOne(statsHistory, CHOOSE stats \in SystemSamples : TRUE,
                                 maxHistorySize)
    /\ UNCHANGED <<alerts, httpHistory, dockerHistory, maxHistorySize, appended, ret>>
    /\ UNCHANGED <<smVars, dispVars>>

\* collectSystemStats when CollectStats fails
CollectSystemError ==
    /\ Running
    /\ tasks["system"] = "cycle"
    /\ EndCycle("system", TRUE)
    /\ UNCHANGED <<smVars, storeVars, dispVars>>

\* collectSystemStats
collectSystemStats(stats) ==
    /\ Running
    /\ tasks["system"] = "cycle"
    /\ CanAppend("stats", 1)
    /\ UpdateSystemState(stats)
    /\ statsHistory' = appendOne(statsHistory, stats, maxHistorySize)
    /\ alerts' = IF Len(emitted') > 0
                 THEN appendAll(alerts, emitted', maxHistorySize) ELSE alerts
    /\ appended' = [appended EXCEPT !["stats"] = Append(@, stats),
                                    !["alerts"] = @ \o emitted']
    /\ UNCHANGED <<httpHistory, dockerHistory, maxHistorySize, ret>>
    /\ EndCycle("system", FALSE)
    /\ UNCHANGED dispVars

\* collectHTTPStats; the results followed are at most max, the readings of
\* the clock at most last
collectHTTPStatsWithin(result, max, last) ==
    /\ Running
    /\ tasks["http"] = "cycle"
    /\ Len(appended["http"]) + 1 <= max
    /\ UpdateHTTPStateWithin(<<result>>, last)
    /\ httpHistory' = appendOne(httpHistory, result, maxHistorySize)
    /\ alerts' = IF Len(emitted') > 0
                 THEN appendAll(alerts, emitted', maxHistorySize) ELSE alerts
    /\ appended' = [appended EXCEPT !["http"] = Append(@, result),
                                    !["alerts"] = @ \o emitted']
    /\ UNCHANGED <<statsHistory, dockerHistory, maxHistorySize, ret>>
    /\ EndCycle("http", FALSE)
    /\ UNCHANGED dispVars

collectHTTPStats(result) == collectHTTPStatsWithin(result, MaxAppends, MaxClock)

\* collectDockerStats when CheckContainers fails
CollectDockerError ==
    /\ Running
    /\ tasks["docker"] = "cycle"
    /\ EndCycle("docker", TRUE)
    /\ UNCHANGED <<smVars, storeVars, dispVars>>

\* collectDockerStats: `stats` is the listing of CheckContainers, `again`
\* the listing CheckContainerStatus takes itself, `failed` its error
collectDockerStats(stats, again, failed) ==
    /\ Running
    /\ tasks["docker"] = "cycle"
    /\ CanAppend("docker", Len(stats))
    /\ LET as == IF failed THEN <<>> ELSE CheckContainerStatus(again, clock)
       IN  /\ dockerHistory' = IF Len(stats) = 0 THEN dockerHistory
                               ELSE appendAll(dockerHistory, stats, maxHistorySize)
           /\ alerts' = IF Len(as) > 0
                        THEN appendAll(alerts, as, maxHistorySize) ELSE alerts
           /\ appended' = [appended EXCEPT !["docker"] = @ \o stats,
                                           !["alerts"] = @ \o as]
    /\ UNCHANGED <<statsHistory, httpHistory, maxHistorySize, ret>>
    /\ EndCycle("docker", FALSE)
    /\ UNCHANGED <<smVars, dispVars>>

\* processAlerts, lines 258-269: GetAlerts, the return on an empty queue,
\* and the call of SendAlerts
ProcessGet ==
    /\ Running
    /\ tasks["alerts"] = "cycle"
    /\ IF Len(alerts) = 0
       THEN /\ tasks' = [tasks EXCEPT !["alerts"] = "select"]
            /\ UNCHANGED <<pending, senders>>
       ELSE /\ tasks' = [tasks EXCEPT !["alerts"] = "sending"]
            /\ pending' = alerts
            /\ senders' = [senders EXCEPT !["alerts"] =
                  [Idle EXCEPT !.pc = "check", !.op = "SendAlerts", !.queue = alerts]]
    /\ UNCHANGED <<env, svc, stopChan, wg, cycles, skipped>>
    /\ UNCHANGED <<config, broken, lastSent, wall, deliveries, lastSend, handed, fatal>>
    /\ UNCHANGED <<smVars, storeVars>>

\* processAlerts that keeps the queue when the dispatcher returned an error
ProcessClear_keepOnError ==
    /\ Running
    /\ tasks["alerts"] = "sending"
    /\ senders["alerts"].pc = "idle"
    /\ IF lastSend.errors = <<>> THEN ClearAlerts ELSE UNCHANGED storeVars
    /\ tasks' = [tasks EXCEPT !["alerts"] = "select"]
    /\ pending' = <<>>
    /\ UNCHANGED <<env, svc, stopChan, wg, cycles, skipped>>
    /\ UNCHANGED <<smVars, dispVars>>

\* processAlerts that returns after SendAlerts without ClearAlerts
ProcessClear_noClear ==
    /\ Running
    /\ tasks["alerts"] = "sending"
    /\ senders["alerts"].pc = "idle"
    /\ UNCHANGED storeVars
    /\ tasks' = [tasks EXCEPT !["alerts"] = "select"]
    /\ pending' = <<>>
    /\ UNCHANGED <<env, svc, stopChan, wg, cycles, skipped>>
    /\ UNCHANGED <<smVars, dispVars>>

\* processAlerts that clears the queue only once an alert of it was delivered
ProcessClear_keepUnsent ==
    /\ Running
    /\ tasks["alerts"] = "sending"
    /\ senders["alerts"].pc = "idle"
    /\ IF lastSend.by = "alerts" THEN ClearAlerts ELSE UNCHANGED storeVars
    /\ tasks' = [tasks EXCEPT !["alerts"] = "select"]
    /\ pending' = <<>>
    /\ UNCHANGED <<env, svc, stopChan, wg, cycles, skipped>>
    /\ UNCHANGED <<smVars, dispVars>>

\* processAlerts, lines 273-274: SendAlerts has returned; ClearAlerts
ProcessClear ==
    /\ Running
    /\ tasks["alerts"] = "sending"
    /\ senders["alerts"].pc = "idle"
    /\ ClearAlerts
    /\ tasks' = [tasks EXCEPT !["alerts"] = "select"]
    /\ pending' = <<>>
    /\ UNCHANGED <<env, svc, stopChan, wg, cycles, skipped>>
    /\ UNCHANGED <<smVars, dispVars>>

\* NewMonitorService
InitService(e) ==
    /\ env = e
    /\ svc = "new"
    /\ stopChan = "open"
    /\ wg = 0
    /\ tasks = [t \in TaskNames |-> "none"]
    /\ cycles = 0
    /\ pending = <<>>
    /\ skipped = {}

DefaultEnvironment ==
    [check |-> GoodCheck, credentials |-> GoodCredentials,
     dockerEnabled |-> TRUE, dockerInit |-> TRUE]

----------------------------------------------------------------------------
(* Stats endpoint: StatsServer.basicAuth (server/server.go).  A string is   *)
(* the sequence of its characters; the Authorization header is kept after   *)
(* the base64 step, as its scheme and the characters of user-id:password.   *)

Colon == ":"

\* user names and passwords, configured or sent: empty, "a", "a:b", "r",
\* and empty, "p", "x"
UserNames == {<<>>, <<"a">>, <<"a", Colon, "b">>, <<"r">>}

Passwords == {<<>>, <<"p">>, <<"x">>}

\* HTTPServerConfig: Username and Password
ServerConfigs ==
    [Username : {<<>>, <<"a">>, <<"a", Colon, "b">>}, Password : {<<>>, <<"p">>}]

OpenServer == [Username |-> <<>>, Password |-> <<>>]

NoHeader == [scheme |-> "", userpass |-> <<>>]

\* http.Request.SetBasicAuth: the header a client builds from its credentials
SetBasicAuth(username, password) ==
    [scheme |-> "Basic", userpass |-> username \o <<Colon>> \o password]

\* the Authorization headers of the requests: none, another scheme, Basic
\* without a colon, and the headers of SetBasicAuth
Headers ==
    {NoHeader, [scheme |-> "Bearer", userpass |-> <<"a", Colon, "p">>],
     [scheme |-> "Basic", userpass |-> <<"a">>]}
    \cup {SetBasicAuth(u, pw) : u \in UserNames, pw \in Passwords}

Requests == [Method : {"GET", "POST"}, header : Headers]

\* http.Request.BasicAuth: the scheme must be Basic, and the credentials are
\* cut at the first colon
BasicAuth(r) ==
    LET up == r.header.userpass
        colons == {i \in 1..Len(up) : up[i] = Colon}
    IN  IF r.header.scheme # "Basic" \/ colons = {}
        THEN [username |-> <<>>, password |-> <<>>, ok |-> FALSE]
        ELSE LET c == CHOOSE i \in colons : \A j \in colons : i <= j
             IN  [username |-> SubSeq(up, 1, c - 1),
                  password |-> SubSeq(up, c + 1, Len(up)), ok |-> TRUE]

StatusOK == 200
StatusUnauthorized == 401
StatusMethodNotAllowed == 405

\* handleStats: the status it answers with
handleStats(r) ==
    IF r.Method # "GET" THEN StatusMethodNotAllowed ELSE StatusOK

\* basicAuth comparing the user name only
Authorized_userOnly(cfg, r) ==
    IF cfg.Username = <<>> \/ cfg.Password = <<>> THEN TRUE
    ELSE LET c == BasicAuth(r)
         IN  IF ~c.ok THEN FALSE
             ELSE IF c.username # cfg.Username THEN FALSE
             ELSE TRUE

\* whether basicAuth hands the request to the handler it wraps
Authorized(cfg, r) ==
    IF cfg.Username = <<>> \/ cfg.Password = <<>> THEN TRUE
    ELSE LET c == BasicAuth(r)
         IN  IF ~c.ok THEN FALSE
             ELSE IF c.username # cfg.Username \/ c.password # cfg.Password
             THEN FALSE
             ELSE TRUE

NoRequest == [Method |-> "", header |-> NoHeader]

\* the function basicAuth returns, called with a request
basicAuth(r) ==
    /\ web.requests < MaxRequests
    /\ LET run == Authorized(web.config, r)
       IN  web' = [web EXCEPT
                     !.request = r,
                     !.handled = run,
                     !.code = IF run THEN handleStats(r) ELSE StatusUnauthorized,
                     !.challenge = ~run /\ ~BasicAuth(r).ok,
                     !.served = IF run THEN @ + 1 ELSE @,
                     !.requests = @ + 1]

\* NewStatsServer(config, ...)
InitStats(cfg) ==
    web = [config |-> cfg, request |-> NoRequest, handled |-> FALSE, code |-> 0,
           challenge |-> FALSE, served |-> 0, requests |-> 0]

----------------------------------------------------------------------------
(* The alert state machine on its own *)

DefaultConfig == CHOOSE cfg \in DispatchConfigs : cfg.Enabled /\ cfg.Cooldown > 0

Init ==
    /\ InitSM
    /\ InitStore(HistorySize)
    /\ InitDispatch(DefaultConfig, {})
    /\ InitService(DefaultEnvironment)
    /\ InitStats(OpenServer)

Next ==
    \/ \E stats \in SystemSamples :
          UpdateSystemState(stats) /\ UNCHANGED <<storeVars, dispVars, svcVars, readerVars, mapVars, lockVars, webVars, probeVars, passVars>>
    \/ \E results \in SeqsUpTo(HTTPResults, MaxBatch) :
          UpdateHTTPState(results) /\ UNCHANGED <<storeVars, dispVars, svcVars, readerVars, mapVars, lockVars, webVars, probeVars, passVars>>

Spec == Init /\ [][Next]_vars

----------------------------------------------------------------------------
(* The endpoint monitoring cycle of a deployment with two endpoints *)

InitEndpoints == Init

NextEndpoints ==
    \E outcome \in [Endpoints -> BOOLEAN], order \in Orders :
        /\ collectHTTPStats_main(outcome, order)
        /\ UNCHANGED <<statsHistory, dockerHistory, maxHistorySize, appended, ret>>
        /\ UNCHANGED <<dispVars, svcVars, readerVars, mapVars, lockVars, webVars, passVars>>

SpecEndpoints == InitEndpoints /\ [][NextEndpoints]_vars

----------------------------------------------------------------------------
(* The state manager called by the two monitoring goroutines at once *)

InitStateMap == Init

NextStateMap ==
    \/ \E stats \in SystemSamples :
          /\ EnterUpdate("system", SystemItems(stats))
          /\ UNCHANGED <<storeVars, dispVars, svcVars, readerVars, lockVars, webVars, probeVars, passVars>>
    \/ \E result \in ProbeResults :
          /\ EnterUpdate("http", HTTPItems(<<result>>))
          /\ UNCHANGED <<storeVars, dispVars, svcVars, readerVars, lockVars, webVars, probeVars, passVars>>
    \/ \E t \in MapTasks :
          Lookup(t) /\ UNCHANGED <<storeVars, dispVars, svcVars, readerVars, lockVars, webVars, probeVars, passVars>>
    \/ \E t \in MapTasks :
          Insert(t) /\ UNCHANGED <<storeVars, dispVars, svcVars, readerVars, lockVars, webVars, probeVars, passVars>>
    \/ MapRaceDetected /\ UNCHANGED <<smVars, storeVars, svcVars, readerVars, mapVars, lockVars, webVars, probeVars, passVars>>

SpecStateMap == InitStateMap /\ [][NextStateMap]_vars

----------------------------------------------------------------------------
(* The history store on its own, called by any number of goroutines *)

InitStorage ==
    /\ InitSM
    /\ \E n \in {0, HistorySize} : InitStore(n)
    /\ InitDispatch(DefaultConfig, {})
    /\ InitService(DefaultEnvironment)
    /\ InitStats(OpenServer)

NextStorage ==
    \/ /\ CanAppend("alerts", 1)
       /\ AddAlert(Fresh("alerts", 1)[1])
       /\ UNCHANGED <<smVars, dispVars, svcVars, readerVars, mapVars, lockVars, webVars, probeVars, passVars>>
    \/ \E n \in 0..(HistorySize + 1) :
          /\ CanAppend("alerts", n)
          /\ AddAlerts(Fresh("alerts", n))
          /\ UNCHANGED <<smVars, dispVars, svcVars, readerVars, mapVars, lockVars, webVars, probeVars, passVars>>
    \/ ClearAlerts /\ UNCHANGED <<smVars, dispVars, svcVars, readerVars, mapVars, lockVars, webVars, probeVars, passVars>>
    \/ /\ CanAppend("stats", 1)
       /\ AddSystemStats(Fresh("stats", 1)[1])
       /\ UNCHANGED <<smVars, dispVars, svcVars, readerVars, mapVars, lockVars, webVars, probeVars, passVars>>
    \/ /\ CanAppend("http", 1)
       /\ AddHTTPCheckResult(Fresh("http", 1)[1])
       /\ UNCHANGED <<smVars, dispVars, svcVars, readerVars, mapVars, lockVars, webVars, probeVars, passVars>>
    \/ \E n \in 0..(HistorySize + 1) :
          /\ CanAppend("docker", n)
          /\ AddDockerContainerStats(Fresh("docker", n))
          /\ UNCHANGED <<smVars, dispVars, svcVars, readerVars, mapVars, lockVars, webVars, probeVars, passVars>>
    \/ GetAlerts /\ UNCHANGED <<smVars, dispVars, svcVars, readerVars, mapVars, lockVars, webVars, probeVars, passVars>>
    \/ GetSystemStats /\ UNCHANGED <<smVars, dispVars, svcVars, readerVars, mapVars, lockVars, webVars, probeVars, passVars>>
    \/ GetLatestSystemStats /\ UNCHANGED <<smVars, dispVars, svcVars, readerVars, mapVars, lockVars, webVars, probeVars, passVars>>
    \/ GetHTTPCheckResults /\ UNCHANGED <<smVars, dispVars, svcVars, readerVars, mapVars, lockVars, webVars, probeVars, passVars>>
    \/ GetDockerContainerStats /\ UNCHANGED <<smVars, dispVars, svcVars, readerVars, mapVars, lockVars, webVars, probeVars, passVars>>
    \/ GetStatus /\ UNCHANGED <<smVars, dispVars, svcVars, readerVars, mapVars, lockVars, webVars, probeVars, passVars>>

SpecStorage == InitStorage /\ [][NextStorage]_vars

----------------------------------------------------------------------------
(* The stats endpoint on its own, under every configuration of ServerConfigs *)

InitAuth ==
    /\ InitSM
    /\ InitStore(HistorySize)
    /\ InitDispatch(DefaultConfig, {})
    /\ InitService(DefaultEnvironment)
    /\ \E cfg \in ServerConfigs : InitStats(cfg)

NextAuth ==
    \E r \in Requests :
        /\ basicAuth(r)
        /\ UNCHANGED <<smVars, storeVars, dispVars, svcVars, readerVars, mapVars,
                       lockVars, probeVars, passVars>>

SpecAuth == InitAuth /\ [][NextAuth]_vars

----------------------------------------------------------------------------
(* The history store lock by lock, called by the goroutines of Callers *)

InitLocks == Init

NextLocks ==
    \/ \E g \in Callers, o \in StoreOps :
          /\ CallStore(g, o)
          /\ UNCHANGED <<smVars, storeVars, dispVars, svcVars, readerVars, mapVars, webVars, probeVars, passVars>>
    \/ \E g \in Callers :
          /\ RLock(g)
          /\ UNCHANGED <<smVars, storeVars, dispVars, svcVars, readerVars, mapVars, webVars, probeVars, passVars>>
    \/ \E g \in Callers :
          /\ LockPending(g)
          /\ UNCHANGED <<smVars, storeVars, dispVars, svcVars, readerVars, mapVars, webVars, probeVars, passVars>>
    \/ \E g \in Callers :
          /\ Lock(g)
          /\ UNCHANGED <<smVars, storeVars, dispVars, svcVars, readerVars, mapVars, webVars, probeVars, passVars>>
    \/ \E g \in Callers :
          /\ Return(g)
          /\ UNCHANGED <<smVars, dispVars, svcVars, readerVars, mapVars, webVars, probeVars, passVars>>

SpecLocks == InitLocks /\ [][NextLocks]_vars

\* the next step of the goroutine inside a method of the store
StoreStep(g) ==
    \/ /\ RLock(g) \/ LockPending(g) \/ Lock(g)
       /\ UNCHANGED <<smVars, storeVars, dispVars, svcVars, readerVars, mapVars, webVars, probeVars, passVars>>
    \/ /\ Return(g)
       /\ UNCHANGED <<smVars, dispVars, svcVars, readerVars, mapVars, webVars, probeVars, passVars>>

\* the scheduler runs every goroutine that can take a step, and a mutex that
\* is free is handed to a goroutine waiting for it
SpecLocksFair ==
    InitLocks /\ [][NextLocks]_vars /\ \A g \in Callers : WF_vars(StoreStep(g))

----------------------------------------------------------------------------
(* The history store with a caller that keeps, and writes to, what it read *)

InitReaders ==
    /\ InitSM
    /\ InitStore(HistorySize)
    /\ InitDispatch(DefaultConfig, {})
    /\ InitService(DefaultEnvironment)
    /\ InitStats(OpenServer)

NextReaders ==
    \/ /\ CanStore(1)
       /\ AddAlert(Fresh("alerts", 1)[1])
       /\ UNCHANGED <<smVars, dispVars, svcVars, readerVars, mapVars, lockVars, webVars, probeVars, passVars>>
    \/ ClearAlerts /\ UNCHANGED <<smVars, dispVars, svcVars, readerVars, mapVars, lockVars, webVars, probeVars, passVars>>
    \/ /\ CanStore(1)
       /\ AddSystemStats(Fresh("stats", 1)[1])
       /\ UNCHANGED <<smVars, dispVars, svcVars, readerVars, mapVars, lockVars, webVars, probeVars, passVars>>
    \/ \E name \in StoredNames :
          /\ CanStore(1)
          /\ AddHTTPCheckResult(FreshResult(name))
          /\ UNCHANGED <<smVars, dispVars, svcVars, readerVars, mapVars, lockVars, webVars, probeVars, passVars>>
    \/ /\ CanStore(1)
       /\ AddDockerContainerStats(Fresh("docker", 1))
       /\ UNCHANGED <<smVars, dispVars, svcVars, readerVars, mapVars, lockVars, webVars, probeVars, passVars>>
    \/ GetAlerts /\ UNCHANGED <<smVars, dispVars, svcVars, readerVars, mapVars, lockVars, webVars, probeVars, passVars>>
    \/ GetSystemStats /\ UNCHANGED <<smVars, dispVars, svcVars, readerVars, mapVars, lockVars, webVars, probeVars, passVars>>
    \/ GetLatestSystemStats /\ UNCHANGED <<smVars, dispVars, svcVars, readerVars, mapVars, lockVars, webVars, probeVars, passVars>>
    \/ GetHTTPCheckResults /\ UNCHANGED <<smVars, dispVars, svcVars, readerVars, mapVars, lockVars, webVars, probeVars, passVars>>
    \/ \E name \in StoredNames :
          GetLatestHTTPCheckResult(name)
          /\ UNCHANGED <<smVars, dispVars, svcVars, readerVars, mapVars, lockVars, webVars, probeVars, passVars>>
    \/ GetDockerContainerStats /\ UNCHANGED <<smVars, dispVars, svcVars, readerVars, mapVars, lockVars, webVars, probeVars, passVars>>
    \/ \E i \in 1..MaxStored :
          MutateReturned(i) /\ UNCHANGED <<smVars, dispVars, svcVars, mapVars, lockVars, webVars, probeVars, passVars>>
    \/ \E i \in 1..MaxStored :
          MutateReturnedDiskUsage(i) /\ UNCHANGED <<smVars, dispVars, svcVars, mapVars, lockVars, webVars, probeVars, passVars>>

SpecReaders == InitReaders /\ [][NextReaders]_vars

----------------------------------------------------------------------------
(* The dispatcher on its own, called by the goroutines of Senders *)

InitDispatcher ==
    /\ InitSM
    /\ InitStore(HistorySize)
    /\ \E cfg \in DispatchConfigs :
          \E down \in Outages(cfg) : InitDispatch(cfg, down)
    /\ InitService(DefaultEnvironment)
    /\ InitStats(OpenServer)

NextDispatcher ==
    \/ \E g \in Senders, a \in DispatchAlerts :
          Call(g, "SendAlert", <<a>>) /\ UNCHANGED <<smVars, storeVars, svcVars, readerVars, mapVars, lockVars, webVars, probeVars, passVars>>
    \/ \E g \in Senders, batch \in SeqsUpTo(DispatchAlerts, MaxHanded) :
          Call(g, "SendAlerts", batch) /\ UNCHANGED <<smVars, storeVars, svcVars, readerVars, mapVars, lockVars, webVars, probeVars, passVars>>
    \/ \E g \in Senders : Check(g) /\ UNCHANGED <<smVars, storeVars, svcVars, readerVars, mapVars, lockVars, webVars, probeVars, passVars>>
    \/ \E g \in Senders : Deliver(g) /\ UNCHANGED <<smVars, storeVars, svcVars, readerVars, mapVars, lockVars, webVars, probeVars, passVars>>
    \/ \E g \in Senders : Record(g) /\ UNCHANGED <<smVars, storeVars, svcVars, readerVars, mapVars, lockVars, webVars, probeVars, passVars>>
    \/ ConcurrentMapWrites /\ UNCHANGED <<smVars, storeVars, svcVars, readerVars, mapVars, lockVars, webVars, probeVars, passVars>>
    \/ Tick /\ deliveries # <<>> /\ UNCHANGED <<smVars, storeVars, svcVars, readerVars, mapVars, lockVars, webVars, probeVars, passVars>>

SpecDispatcher == InitDispatcher /\ [][NextDispatcher]_vars

----------------------------------------------------------------------------
(* The service: main calls Start, and Stop once Start has succeeded *)

\* a required field of the channel is missing
FieldMissing(c, cred) ==
    CASE c = "email" ->
            \/ cred.Email.SMTPHost = "" \/ cred.Email.SMTPPort <= 0
            \/ cred.Email.From = "" \/ cred.Email.To = ""
      [] c = "mailgun" ->
            \/ cred.Mailgun.APIKey = "" \/ cred.Mailgun.Domain = ""
            \/ cred.Mailgun.From = "" \/ cred.Mailgun.To = ""
      [] c = "telegram" ->
            cred.Telegram.BotToken = "" \/ cred.Telegram.ChatID = ""

\* alerting is enabled with no channel enabled, or with an enabled channel
\* that misses a required field
AlertingMisconfigured(cfg, cred) ==
    /\ cfg.Enabled
    /\ \/ EnabledChannels(cfg) = {}
       \/ \E c \in EnabledChannels(cfg) : FieldMissing(c, cred)

\* an alerting configuration with no channel enabled
NoChannelConfig ==
    [DefaultConfig EXCEPT !.Email = FALSE, !.Mailgun = FALSE, !.Telegram = FALSE]

DisabledConfig == CHOOSE cfg \in DispatchConfigs : ~cfg.Enabled

\* the deployments followed: the ones Start accepts, with and without the
\* container task, with the transports up or the first one down, and with
\* alerting disabled; and every deployment Start refuses with a valid
\* configuration but for one field
Deployments ==
    {[env |-> DefaultEnvironment, config |-> DefaultConfig, down |-> {}],
     [env |-> DefaultEnvironment, config |-> DefaultConfig, down |-> {"email"}],
     [env |-> [DefaultEnvironment EXCEPT !.dockerInit = FALSE],
      config |-> DefaultConfig, down |-> {}],
     [env |-> [DefaultEnvironment EXCEPT !.dockerEnabled = FALSE, !.dockerInit = FALSE,
                                         !.credentials.Email.SMTPHost = ""],
      config |-> DisabledConfig, down |-> {}]}
    \cup {[env |-> [DefaultEnvironment EXCEPT !.check = c], config |-> DefaultConfig,
           down |-> {}] : c \in HTTPChecks \ {GoodCheck}}
    \cup {dep \in {[env |-> [DefaultEnvironment EXCEPT !.credentials = cr],
                     config |-> cfg, down |-> {}] :
                        cr \in Credentials, cfg \in DispatchConfigs} :
            AlertingMisconfigured(dep.config, dep.env.credentials)}
    \cup {[env |-> DefaultEnvironment, config |-> NoChannelConfig, down |-> {}]}

InitMonitor ==
    /\ InitSM
    /\ InitStore(HistorySize)
    /\ \E dep \in Deployments :
          /\ InitDispatch(dep.config, dep.down)
          /\ InitService(dep.env)
    /\ InitStats(OpenServer)

NextMonitor ==
    \/ Start /\ UNCHANGED <<smVars, storeVars, dispVars, readerVars, mapVars, lockVars, webVars, probeVars, passVars>>
    \/ StopClose /\ UNCHANGED <<smVars, storeVars, dispVars, readerVars, mapVars, lockVars, webVars, probeVars, passVars>>
    \/ StopReturn /\ UNCHANGED <<smVars, storeVars, dispVars, readerVars, mapVars, lockVars, webVars, probeVars, passVars>>
    \/ \E t \in TaskNames : TaskExit(t) /\ UNCHANGED <<smVars, storeVars, dispVars, readerVars, mapVars, lockVars, webVars, probeVars, passVars>>
    \/ \E t \in TaskNames : TaskTick(t) /\ UNCHANGED <<smVars, storeVars, dispVars, readerVars, mapVars, lockVars, webVars, probeVars, passVars>>
    \/ CollectSystemError /\ UNCHANGED <<readerVars, mapVars, lockVars, webVars, probeVars, passVars>>
    \/ \E stats \in SystemSamples : collectSystemStats(stats) /\ UNCHANGED <<readerVars, mapVars, lockVars, webVars, probeVars, passVars>>
    \/ \E result \in ProbeResults : collectHTTPStats(result) /\ UNCHANGED <<readerVars, mapVars, lockVars, webVars, probeVars, passVars>>
    \/ CollectDockerError /\ UNCHANGED <<readerVars, mapVars, lockVars, webVars, probeVars, passVars>>
    \/ \E stats \in ContainerListings, again \in ContainerListings, failed \in BOOLEAN :
          collectDockerStats(stats, again, failed) /\ UNCHANGED <<readerVars, mapVars, lockVars, webVars, probeVars, passVars>>
    \/ ProcessGet /\ UNCHANGED <<readerVars, mapVars, lockVars, webVars, probeVars, passVars>>
    \/ Check("alerts") /\ UNCHANGED <<smVars, storeVars, svcVars, readerVars, mapVars, lockVars, webVars, probeVars, passVars>>
    \/ Deliver("alerts") /\ UNCHANGED <<smVars, storeVars, svcVars, readerVars, mapVars, lockVars, webVars, probeVars, passVars>>
    \/ Record("alerts") /\ UNCHANGED <<smVars, storeVars, svcVars, readerVars, mapVars, lockVars, webVars, probeVars, passVars>>
    \/ ProcessClear /\ UNCHANGED <<readerVars, mapVars, lockVars, webVars, probeVars, passVars>>
    \/ Tick /\ deliveries # <<>> /\ UNCHANGED <<smVars, storeVars, svcVars, readerVars, mapVars, lockVars, webVars, probeVars, passVars>>

SpecMonitor == InitMonitor /\ [][NextMonitor]_vars

----------------------------------------------------------------------------
(* The service from Start to the return of Stop, for the question whether   *)
(* Stop returns.  One deployment is followed, with every task launched and  *)
(* the first transport down; the collectors return an error or one of a few *)
(* readings.                                                                *)

InitShutdown ==
    /\ InitSM
    /\ InitStore(HistorySize)
    /\ InitDispatch(DefaultConfig, {"email"})
    /\ InitService(DefaultEnvironment)
    /\ InitStats(OpenServer)

\* the readings followed here: the CPU at its threshold, and the listing
\* with a stopped container
ShutdownSamples == {stats \in SystemSamples : stats.CPUUsage >= CPUThreshold}

ShutdownListings == {l \in ContainerListings : \E i \in DOMAIN l : ~l[i].Running}

OutsideService == <<readerVars, mapVars, lockVars, webVars, probeVars, passVars>>

OutsideTasks == <<smVars, storeVars, dispVars, readerVars, mapVars, lockVars, webVars, probeVars, passVars>>

OutsideDispatcher == <<smVars, storeVars, svcVars, readerVars, mapVars, lockVars, webVars, probeVars, passVars>>

\* a loop blocked in its select with the stop channel closed takes that case
ExitStep(t) == TaskExit(t) /\ UNCHANGED OutsideTasks

\* wg.Wait returns once the counter is zero
WaitStep == StopReturn /\ UNCHANGED OutsideTasks

\* the call a task is in returns: the collectors, the state manager and the
\* store for the monitoring tasks, the store and the dispatcher with its
\* transports for the alert task
CycleStep(t) ==
    CASE t = "system" ->
           (CollectSystemError \/ \E stats \in ShutdownSamples : collectSystemStats(stats))
              /\ UNCHANGED OutsideService
      [] t = "http" ->
           (\E result \in ProbeResults : collectHTTPStats(result))
              /\ UNCHANGED OutsideService
      [] t = "docker" ->
           (CollectDockerError
              \/ \E stats \in ShutdownListings : collectDockerStats(stats, stats, FALSE))
              /\ UNCHANGED OutsideService
      [] t = "alerts" ->
           \/ (ProcessGet \/ ProcessClear) /\ UNCHANGED OutsideService
           \/ (Check("alerts") \/ Deliver("alerts") \/ Record("alerts"))
                 /\ UNCHANGED OutsideDispatcher

NextShutdown ==
    \/ Start /\ UNCHANGED OutsideTasks
    \/ StopClose /\ UNCHANGED OutsideTasks
    \/ WaitStep
    \/ \E t \in TaskNames : ExitStep(t)
    \/ \E t \in TaskNames : TaskTick(t) /\ UNCHANGED OutsideTasks
    \/ \E t \in TaskNames : CycleStep(t)
    \/ Tick /\ deliveries # <<>> /\ UNCHANGED OutsideDispatcher

\* Fairness: the scheduler runs every goroutine that can take a step, the
\* select of a loop takes the closed stop channel (the ticker is ready only
\* now and then), and the calls in progress return.
SpecMonitorFair ==
    /\ InitShutdown
    /\ [][NextShutdown]_vars
    /\ \A t \in TaskNames : WF_vars(ExitStep(t))
    /\ \A t \in TaskNames : WF_vars(CycleStep(t))
    /\ WF_vars(WaitStep)

----------------------------------------------------------------------------
(* From the producers to the dispatcher.  The endpoint task, the container  *)
(* task and the dispatch task are followed over more cycles than above; the *)
(* resource task receives no tick in the window followed.  The observer     *)
(* notes every alert processAlerts passes to SendAlert and whether          *)
(* SendAlert returned before the channels.                                  *)

PipelineDeployments ==
    {[env |-> DefaultEnvironment, config |-> cfg, down |-> {}] : cfg \in DispatchConfigs}

InitPipeline ==
    /\ InitSM
    /\ InitStore(HistorySize)
    /\ \E dep \in PipelineDeployments :
          /\ InitDispatch(dep.config, dep.down)
          /\ InitService(dep.env)
    /\ InitStats(OpenServer)

PipelineTasks == {"http", "docker", "alerts"}

PipelineListings == {l \in ContainerListings : \E i \in DOMAIN l : ~l[i].Running}

OutsidePipeline == <<readerVars, mapVars, lockVars, webVars, probeVars>>

\* SendAlerts calls SendAlert with the next alert of the batch
OfferAlert ==
    /\ Check("alerts")
    /\ offered' = Append(offered,
                         [alert |-> Head(senders["alerts"].queue),
                          skipped |-> senders'["alerts"].pc # "send"])

NextPipeline ==
    \/ Start /\ UNCHANGED <<smVars, storeVars, dispVars, OutsidePipeline, passVars>>
    \/ \E t \in PipelineTasks :
          TaskTickWithin(t, MaxTicks)
             /\ UNCHANGED <<smVars, storeVars, dispVars, OutsidePipeline, passVars>>
    \/ \E result \in ProbeResults :
          collectHTTPStatsWithin(result, MaxTicks, MaxTicks) /\ UNCHANGED <<OutsidePipeline, passVars>>
    \/ \E stats \in PipelineListings :
          collectDockerStats(stats, stats, FALSE) /\ UNCHANGED <<OutsidePipeline, passVars>>
    \/ ProcessGet /\ UNCHANGED <<OutsidePipeline, passVars>>
    \/ OfferAlert /\ UNCHANGED <<smVars, storeVars, svcVars, OutsidePipeline>>
    \/ Deliver("alerts") /\ UNCHANGED <<smVars, storeVars, svcVars, OutsidePipeline, passVars>>
    \/ Record("alerts") /\ UNCHANGED <<smVars, storeVars, svcVars, OutsidePipeline, passVars>>
    \/ ProcessClear /\ UNCHANGED <<OutsidePipeline, passVars>>
    \/ Tick /\ deliveries # <<>>
          /\ UNCHANGED <<smVars, storeVars, svcVars, OutsidePipeline, passVars>>

SpecPipeline == InitPipeline /\ [][NextPipeline]_vars

----------------------------------------------------------------------------
(* Properties of the alert state machine *)

Evaluated == DOMAIN obs

\* C1: an unhealthy episode of one or two samples produces no alert event:
\* none while it lasts, and none on the ok evaluation that ends it.
C1_ShortEpisodeSilent ==
    \A k \in Evaluated :
        LET o == obs[k]
        IN  /\ (o.cls = "critical" /\ o.run <= 2) => o.evs = 0
            /\ (o.cls = "ok" /\ o.run = 1 /\ o.prevRun \in {1, 2})
                  => (o.prevEvs = 0 /\ o.lastEv = "none")

\* an episode critical, critical has just been ended by an ok evaluation
C1_Witness ==
    \E k \in Evaluated :
        obs[k].cls = "ok" /\ obs[k].run = 1 /\ obs[k].prevRun = 2 /\ obs[k].n >= 3

\* C2: within one unhealthy episode of a key at most one critical event is
\* emitted, whatever the non-decreasing timestamps of its evaluations.
C2_OneCriticalPerEpisode ==
    \A k \in Evaluated : Cardinality(obs[k].critAt) <= 1

\* C3: in an unhealthy episode the critical event is emitted by the
\* evaluation of the third consecutive critical sample and by no other.
C3_CriticalOnThirdOnly ==
    \A k \in Evaluated :
        obs[k].cls = "critical"
            => obs[k].critAt = (IF obs[k].run >= 3 THEN {3} ELSE {})

\* C4: the ok evaluation that ends an unhealthy episode which emitted a
\* critical alert emits a recovery event, and the later ok evaluations of
\* that healthy episode emit none.
C4_RecoveryAfterAlert ==
    \A k \in Evaluated :
        LET o == obs[k]
        IN  /\ (o.cls = "ok" /\ o.run = 1 /\ o.prevCritAt # {}) => o.lastEv # "none"
            /\ (o.cls = "ok" /\ o.run > 1) => o.lastEv = "none"

\* C5 as claimed: a classification that differs from currentState sets
\* consecutiveChecks to 1, an equal one adds exactly 1, and the value 1 is
\* taken only on an evaluation that changes currentState.
C5_ResetOnlyOnTransition ==
    \A k \in Evaluated :
        LET o == obs[k]
            s == states[k]
        IN  /\ o.cls # o.before.CurrentState => s.ConsecutiveChecks = 1
            /\ o.cls = o.before.CurrentState
                  => s.ConsecutiveChecks = o.before.ConsecutiveChecks + 1
            /\ s.ConsecutiveChecks = 1 => o.cls # o.before.CurrentState

\* C5 as amended: the same, except that the first evaluation of a key,
\* when it is classified ok, takes consecutiveChecks from 0 to 1 without a
\* change of currentState.
C5_ResetOnTransitionOrFirstOk ==
    \A k \in Evaluated :
        LET o == obs[k]
            s == states[k]
        IN  /\ o.cls # o.before.CurrentState => s.ConsecutiveChecks = 1
            /\ o.cls = o.before.CurrentState
                  => s.ConsecutiveChecks = o.before.ConsecutiveChecks + 1
            /\ s.ConsecutiveChecks = 1
                  => \/ o.cls # o.before.CurrentState
                     \/ (o.n = 1 /\ o.cls = "ok")

\* a key has been through a transition, two increments and a transition back
C5_Witness ==
    \E k \in Evaluated :
        /\ obs[k].n >= 4
        /\ obs[k].cls = "ok"
        /\ obs[k].prevRun = 3
        /\ states[k].ConsecutiveChecks = 1

\* the two classifications
Classes == {"ok", "critical"}

C22_StatesMapSynchronized ==
    \A t, u \in MapTasks : ~Conflict(t, u)

\* the step evaluates a sample of the key (the observer has seen one more)
EvaluatedNow(k) == k \notin DOMAIN obs \/ obs'[k] # obs[k]

\* C26: LastStateChange of the state of a key changes only in an evaluation
\* of that key whose classification differs from its CurrentState, and it
\* then takes the time of the evaluation; an evaluation of the key with the
\* same classification and every evaluation of another key leave it as it
\* was.  (getOrCreateState gives it its first value when it creates the
\* state.)
C26_StateChangeStamp ==
    /\ [][\A k \in DOMAIN states :
            IF EvaluatedNow(k) /\ obs'[k].cls # states[k].CurrentState
            THEN states'[k].LastStateChange = obs'[k].now
            ELSE states'[k].LastStateChange = states[k].LastStateChange]_vars
    /\ [][\A k \in DOMAIN states' \ DOMAIN states :
            /\ EvaluatedNow(k)
            /\ obs'[k].before.LastStateChange = CreateReading(obs'[k].now)]_vars

\* a key changed to critical at its second evaluation, and its third
\* evaluation, critical again, left the time of that change
C26_Witness ==
    \E k \in Evaluated :
        /\ obs[k].n = 3
        /\ obs[k].cls = "critical"
        /\ obs[k].run = 2
        /\ obs[k].now = 3
        /\ states[k].LastStateChange = 2

\* the alerts a goroutine in Update*State has collected so far
Collected(t) == IF access[t].pc = "idle" THEN emitted ELSE access[t].alerts

\* C27: the evaluation of a sample of one key leaves the AlertState of
\* every other key as it was (CurrentState, ConsecutiveChecks,
\* LastAlertSent, LastStateChange), and the alert it returns, if any, is of
\* the evaluated key.
C27_PerKeyIsolation ==
    /\ [][\A k \in DOMAIN states : ~EvaluatedNow(k) => states'[k] = states[k]]_vars
    /\ [][\A t \in MapTasks :
            (access[t].pc \in {"reading", "writing"}
               /\ access'[t].pc # "writing" /\ access'[t] # access[t]) =>
                \/ Collected(t)' = access[t].alerts
                \/ \E a \in {Collected(t)'[i] : i \in 1..Len(Collected(t)')} :
                      /\ Collected(t)' = Append(access[t].alerts, a)
                      /\ a.Type = Head(access[t].items).key]_vars

\* the endpoint key has been evaluated twice and is critical while
\* the resource keys, evaluated once, are ok
C27_Witness ==
    /\ {"cpu", "memory", "http_"} \subseteq Evaluated
    /\ obs["http_"].n = 2
    /\ states["http_"].CurrentState = "critical"
    /\ states["http_"].ConsecutiveChecks = 2
    /\ obs["cpu"].n = 1
    /\ states["cpu"].CurrentState = "ok"
    /\ states["cpu"].ConsecutiveChecks = 1
    /\ states["memory"].ConsecutiveChecks = 1

\* C28: the state of an endpoint is kept under "http_" followed by the name
\* of the endpoint, so two configured endpoints have two alert states, and
\* an endpoint whose probe has failed in three cycles in a row has its
\* critical alert returned by the third, whatever the other endpoint did.
C28_EndpointKeys ==
    \A e \in Endpoints :
        /\ clock > 0 => ("http_" \o e) \in DOMAIN states
        /\ probed[e] = 3 =>
              \E i \in DOMAIN emitted :
                  /\ emitted[i].Type = "http_" \o e
                  /\ emitted[i].Level = "critical"

\* C31: the alert an evaluation returns has the evaluated key as its Type
\* and the time of the evaluation as its Timestamp, and its Level is
\* critical when the evaluation was critical; LastAlertSent of the key is
\* the time of the evaluation when it returned an alert and is what it was
\* before when it returned none.
C31_EmittedEvent ==
    \A k \in Evaluated :
        LET o == obs[k]
        IN  /\ o.lastEv # "none" =>
                  /\ o.lastType = k
                  /\ o.lastStamp = o.now
                  /\ o.lastEv = (IF o.cls = "critical" THEN "critical" ELSE "warning")
            /\ states[k].LastAlertSent =
                  (IF o.lastEv # "none" THEN o.now ELSE o.before.LastAlertSent)

\* a key whose third evaluation returned the critical alert, and whose
\* fourth, critical again and later, returned none
C31_Witness ==
    \E k \in Evaluated :
        /\ obs[k].cls = "critical"
        /\ obs[k].run = 4
        /\ obs[k].critAt = {3}
        /\ obs[k].lastEv = "none"
        /\ states[k].LastAlertSent # ZeroTime
        /\ states[k].LastAlertSent < obs[k].now

----------------------------------------------------------------------------
(* Properties of the history store *)

Categories ==
    [alerts |-> alerts, stats |-> statsHistory, http |-> httpHistory,
     docker |-> dockerHistory]

LastN(h, n) == IF Len(h) > n THEN SubSeq(h, Len(h) - n + 1, Len(h)) ELSE h

\* C6: each of the four categories holds at most maxHistorySize entries.
C6_BoundedCategories ==
    \A cat \in DOMAIN Categories : Len(Categories[cat]) <= maxHistorySize

\* the alerts and the container categories are full after more appends than
\* the capacity
C6_Witness ==
    /\ Len(alerts) = maxHistorySize
    /\ Len(appended["alerts"]) > maxHistorySize
    /\ Len(dockerHistory) = maxHistorySize
    /\ Len(appended["docker"]) > maxHistorySize

\* C7: a category holds exactly the last maxHistorySize entries appended to
\* it, in the order of their arrival; the older ones are gone.
C7_FifoEviction ==
    \A cat \in DOMAIN Categories :
        Categories[cat] = LastN(appended[cat], maxHistorySize)

\* a category appended to one entry at a time, and one appended to in
\* batches, have both gone past the capacity
C7_Witness ==
    /\ Len(appended["stats"]) = maxHistorySize + MaxOverflow
    /\ Len(appended["alerts"]) = maxHistorySize + MaxOverflow
    /\ statsHistory[1] = MaxOverflow + 1

\* the value a read of the latest entry gives for no entry (nil)
Nil == <<>>

\* C19: GetLatestSystemStats returns the sample appended last, whatever was
\* appended and evicted before, and nil when no sample was appended.
C19_LatestIsLastAppended ==
    [][(ret'.op = "GetLatestSystemStats" /\ UNCHANGED appended) =>
          ret'.val = IF appended["stats"] = <<>> THEN Nil
                     ELSE <<appended["stats"][Len(appended["stats"])]>>]_vars

\* more samples were appended than the store keeps, and the read returned
\* the last of them
C19_Witness ==
    /\ ret.op = "GetLatestSystemStats"
    /\ Len(appended["stats"]) = maxHistorySize + MaxOverflow
    /\ Len(statsHistory) = maxHistorySize
    /\ ret.val = <<maxHistorySize + MaxOverflow>>

\* C20: ClearAlerts leaves no alert in the store (a count of 0) and leaves
\* the system samples, the endpoint results, the container entries and the
\* capacity as they were.
C20_ClearAlertsFrame ==
    [][(appended["alerts"] # <<>> /\ appended'["alerts"] = <<>>) =>
          /\ alerts' = <<>>
          /\ Len(alerts') = 0
          /\ UNCHANGED <<statsHistory, httpHistory, dockerHistory,
                         maxHistorySize>>]_vars

\* a read had returned alerts, the alerts were cleared since, and the three
\* other categories still hold entries
C20_Witness ==
    /\ ret.op = "GetAlerts"
    /\ ret.val # <<>>
    /\ alerts = <<>>
    /\ appended["alerts"] = <<>>
    /\ Len(statsHistory) = maxHistorySize
    /\ httpHistory # <<>>
    /\ dockerHistory # <<>>

\* the goroutine is inside a call and cannot take the mutex it is to take
Blocked(g) ==
    /\ callers[g].need # <<>>
    /\ IF callers[g].mode = "RLock" THEN ~CanRLock(g)
       ELSE g \in mu[Wanted(g)].pending /\ ~CanLock(g)

\* the goroutines a blocked goroutine waits for: the holders of the mutex
\* and, for a reader, the writers pending on it
Blockers(g) ==
    {h \in Callers \ {g} :
        \/ mu[Wanted(g)].writer = h
        \/ h \in mu[Wanted(g)].readers
        \/ callers[g].mode = "RLock" /\ h \in mu[Wanted(g)].pending}

\* the call concerns one category only
SingleCategory(g) == Len(callers[g].need) + Cardinality(callers[g].held) = 1

\* C23: a call that concerns one category only never waits because of
\* another category: when it cannot take the mutex of its category, none of
\* the goroutines it waits for is itself waiting for the mutex of a
\* different category.
C23_CategoriesIndependent ==
    \A g \in Callers :
        (SingleCategory(g) /\ Blocked(g)) =>
            \A h \in Blockers(g) :
                ~(Blocked(h) /\ Wanted(h) # Wanted(g))

\* C11: what a read returned belongs to its caller.  A step that is not an
\* append or a clear (a caller writing to the value it holds, its DiskUsage
\* map included) leaves what the store returns unchanged, and a step that
\* appends or clears leaves the value already returned unchanged.
C11_ReadsAreIndependent ==
    /\ [][UNCHANGED <<alerts, statsHistory, httpHistory, dockerHistory>>
            => StoreReturns' = StoreReturns]_vars
    /\ [][~UNCHANGED <<alerts, statsHistory, httpHistory, dockerHistory>>
            => Returned' = Returned]_vars

----------------------------------------------------------------------------
(* Properties of the dispatcher *)

\* C8: with a cooldown of C > 0 minutes, no two deliveries of alerts of the
\* same type are made less than C minutes apart, whatever the sequence or
\* interleaving of the SendAlert / SendAlerts calls.
C8_NoResendWithinCooldown ==
    config.Cooldown > 0 =>
        \A type \in DOMAIN deliveries :
            deliveries[type].minGap >= config.Cooldown * Minute

EnabledSeq(cfg) == SelectSeq(Channels, LAMBDA c : ChannelEnabled(cfg, c))

\* C9: a SendAlert that passed the filters has attempted every enabled
\* channel, whatever the outcome of the others, and its error names exactly
\* the channels that failed.
C9_ChannelIndependence ==
    lastSend # NoSend =>
        /\ lastSend.attempted = EnabledSeq(config)
        /\ lastSend.errors = SelectSeq(EnabledSeq(config), LAMBDA c : c \in broken)

\* one enabled channel failed, another enabled channel was sent on, and the
\* error names the failing one only
C9_Witness ==
    /\ lastSend # NoSend
    /\ lastSend.errors = <<"email">>
    /\ lastSend.attempted = <<"email", "mailgun">>

\* C15: with alerting disabled, SendAlert and SendAlerts return no error,
\* attempt no delivery on any channel and leave the last-sent map as it was.
C15_DisabledSendsNothing ==
    ~config.Enabled =>
        /\ \A g \in Senders :
              /\ senders[g].pc \in {"idle", "check"}
              /\ senders[g].result \in {"none", "nil"}
              /\ senders[g].attempted = <<>>
              /\ senders[g].batchErrors = <<>>
        /\ deliveries = <<>>
        /\ lastSent = <<>>
        /\ lastSend = NoSend

\* alerting is disabled, both goroutines have handed alerts to the
\* dispatcher and both calls have returned nil
C15_Witness ==
    /\ ~config.Enabled
    /\ handed = MaxHanded
    /\ \A g \in Senders : senders[g].pc = "idle" /\ senders[g].result = "nil"

\* the levels config.AlertLevels lets through
ConfiguredLevels(cfg) == {cfg.AlertLevels[i] : i \in DOMAIN cfg.AlertLevels}

LevelEligible(cfg, level) ==
    cfg.AlertLevels = <<>> \/ level \in ConfiguredLevels(cfg)

\* C16: an alert is eligible by level exactly when the configured list of
\* levels is empty or contains the alert's level.  Only eligible alerts are
\* sent on a channel; an alert that is not eligible is dropped by the checks
\* of SendAlert, which returns nil (SendAlerts goes on with the errors it had,
\* and returns an error only if an earlier alert of the batch gave one), and
\* an eligible alert that alerting and the cooldown let through is sent.
C16_LevelFilter ==
    /\ [](\A g \in Senders :
            senders[g].pc \in {"send", "record"} =>
                LevelEligible(config, Head(senders[g].queue).Level))
    /\ [](lastSend # NoSend => LevelEligible(config, lastSend.alert.Level))
    /\ [][\A g \in Senders :
            (senders[g].pc = "check" /\ senders'[g] # senders[g]) =>
                LET alert == Head(senders[g].queue)
                IN  IF LevelEligible(config, alert.Level)
                    THEN (config.Enabled
                            /\ shouldSendCooldown(config, lastSent, alert, wall))
                         => senders'[g].pc = "send"
                    ELSE /\ UNCHANGED <<deliveries, lastSent, lastSend>>
                         /\ IF Len(senders[g].queue) > 1
                            THEN /\ senders'[g].pc = "check"
                                 /\ senders'[g].batchErrors = senders[g].batchErrors
                            ELSE /\ senders'[g].pc = "idle"
                                 /\ senders'[g].result =
                                       IF senders[g].batchErrors = <<>>
                                       THEN "nil" ELSE "error"
                         /\ senders[g].op = "SendAlert"
                              => senders'[g].result = "nil"]_vars

\* only critical alerts are configured, every alert handed over was a
\* warning: both calls have returned nil and nothing was delivered, although
\* every channel is down
C16_Witness ==
    /\ config.AlertLevels = <<"critical">>
    /\ broken # {}
    /\ handed = MaxHanded
    /\ \A g \in Senders : senders[g].pc = "idle" /\ senders[g].result = "nil"
    /\ deliveries = <<>>

\* the alert types the dispatcher is handed
DispatchTypes == {a.Type : a \in DispatchAlerts}

\* the recorded sends without the one of the type
WithoutType(sent, type) == [t \in DOMAIN sent \ {type} |-> sent[t]]

\* C17: shouldSendCooldown allows an alert when the cooldown is not positive
\* or no send of its type is recorded, and otherwise exactly when at least
\* the cooldown has elapsed since the recorded send of its type: right after
\* a recorded send of the type it refuses, and the recorded send of another
\* type makes no difference.  SendAlert sends an enabled, level-eligible
\* alert exactly when the predicate allows it.
C17_CooldownPredicate ==
    /\ [](\A a \in DispatchAlerts :
            LET allowed == shouldSendCooldown(config, lastSent, a, wall)
                recorded == a.Type \in DOMAIN lastSent
            IN  /\ (config.Cooldown <= 0 \/ ~recorded) => allowed
                /\ (config.Cooldown > 0 /\ recorded) =>
                      (allowed <=>
                         wall - lastSent[a.Type] >= config.Cooldown * Minute)
                /\ (config.Cooldown > 0 /\ recorded /\ lastSent[a.Type] = wall)
                      => ~allowed
                /\ \A other \in DispatchTypes \ {a.Type} :
                      allowed = shouldSendCooldown(
                                   config, WithoutType(lastSent, other), a, wall))
    /\ [][\A g \in Senders :
            (/\ senders[g].pc = "check"
             /\ senders'[g] # senders[g]
             /\ config.Enabled
             /\ LevelEligible(config, Head(senders[g].queue).Level)) =>
                LET alert == Head(senders[g].queue)
                IN  senders'[g].pc = "send" <=>
                       \/ config.Cooldown <= 0
                       \/ alert.Type \notin DOMAIN lastSent
                       \/ wall - lastSent[alert.Type]
                             >= config.Cooldown * Minute]_vars

\* a cpu alert was sent and recorded this minute; a second cpu alert was
\* refused (one cpu delivery only, both calls returned), and an alert of
\* type http_api is allowed
C17_Witness ==
    /\ config.Cooldown > 0
    /\ DOMAIN lastSent = {"cpu"}
    /\ lastSent["cpu"] = wall
    /\ handed = 2
    /\ \A g \in Senders : senders[g].pc = "idle"
    /\ DOMAIN deliveries = {"cpu"}
    /\ deliveries["cpu"].minGap = NoGap
    /\ ~shouldSendCooldown(config, lastSent, [Type |-> "cpu", Level |-> "critical"], wall)
    /\ shouldSendCooldown(config, lastSent, [Type |-> "http_api", Level |-> "critical"], wall)

\* C18: a SendAlert that attempted delivery records the time for the alert's
\* type when it returns, whatever the channels answered, every enabled
\* channel failing included; an alert of a type recorded less than the
\* cooldown ago is not sent.
C18_RecordedDespiteFailure ==
    /\ [][\A g \in Senders :
            (senders[g].pc = "record" /\ senders'[g] # senders[g]) =>
                LET type == Head(senders[g].queue).Type
                IN  /\ type \in DOMAIN lastSent'
                    /\ lastSent'[type] = wall
                    /\ lastSend'.errors = senders[g].errors]_vars
    /\ [](lastSend # NoSend => lastSend.alert.Type \in DOMAIN lastSent)
    /\ [][\A g \in Senders :
            (/\ senders[g].pc = "check"
             /\ senders'[g] # senders[g]
             /\ config.Cooldown > 0
             /\ Head(senders[g].queue).Type \in DOMAIN lastSent
             /\ wall - lastSent[Head(senders[g].queue).Type]
                   < config.Cooldown * Minute) =>
                /\ senders'[g].pc # "send"
                /\ UNCHANGED <<deliveries, lastSent, lastSend>>]_vars

\* every enabled channel failed for an alert, its type was recorded all the
\* same, and the next alert of the type, handed over inside the cooldown, was
\* not sent: there was one attempt only
C18_Witness ==
    /\ config.Cooldown > 0
    /\ lastSend # NoSend
    /\ lastSend.attempted # <<>>
    /\ lastSend.errors = lastSend.attempted
    /\ handed = 2
    /\ \A g \in Senders : senders[g].pc = "idle"
    /\ DOMAIN deliveries = {lastSend.alert.Type}
    /\ deliveries[lastSend.alert.Type].minGap = NoGap
    /\ DOMAIN lastSent = {lastSend.alert.Type}
    /\ wall - lastSent[lastSend.alert.Type] < config.Cooldown * Minute

----------------------------------------------------------------------------
(* Properties of the service *)

Launched == {t \in TaskNames : tasks[t] # "none"}

\* C10: once Stop has returned, every task Start launched has left its loop,
\* the dispatch it ran has come back, and from then on nothing writes to the
\* history store, the alert states or the cooldown map.
C10_StopWaitsForTasks ==
    /\ [](svc = "stopped" =>
            /\ \A t \in Launched : tasks[t] = "exited"
            /\ senders["alerts"].pc = "idle"
            /\ wg = 0)
    /\ [][svc = "stopped" =>
            UNCHANGED <<smVars, storeVars, lastSent, senders, deliveries,
                        lastSend, tasks>>]_vars

\* Stop has returned after all four tasks ran, wrote and dispatched
C10_Witness ==
    /\ svc = "stopped"
    /\ \A t \in TaskNames : tasks[t] = "exited"
    /\ Len(statsHistory) > 0
    /\ Len(dockerHistory) > 0
    /\ DOMAIN lastSent # {}

\* processAlerts returns: it was waiting for SendAlerts and is back in the loop
ProcessAlertsReturns == tasks["alerts"] = "sending" /\ tasks'["alerts"] = "select"

\* C12: when processAlerts returns from a cycle that found the pending queue
\* non-empty, the pending queue is empty, whether SendAlerts returned an
\* error or not.
C12_QueueDrained ==
    [][ProcessAlertsReturns => (pending # <<>> /\ alerts' = <<>>)]_vars

\* processAlerts has dispatched a queue on which a channel failed, has
\* returned, and the queue is empty
C12_Witness ==
    /\ lastSend.by = "alerts"
    /\ lastSend.errors # <<>>
    /\ tasks["alerts"] = "select"
    /\ alerts = <<>>

\* the cycle of the task returns on the error of its collaborator
CycleSkipped(t) == tasks[t] = "cycle" /\ tasks'[t] = "select" /\ t \in skipped'

C14_ValidationIsFatal ==
    /\ svc # "new" =>
          (svc = "failed" <=>
              \/ ValidateHTTPCheck(env.check) # NoError
              \/ AlertingMisconfigured(config, env.credentials))
    /\ svc = "failed" =>
          /\ \A t \in TaskNames : tasks[t] = "none"
          /\ wg = 0
          /\ cycles = 0
    /\ ~config.Enabled => ValidateConfig(config, env.credentials) = NoError

\* Start has refused a configuration whose Telegram channel is enabled
\* without a chat ID
C14_Witness ==
    /\ svc = "failed"
    /\ config.Telegram
    /\ env.credentials.Telegram.ChatID = ""
    /\ ValidateHTTPCheck(env.check) = NoError

\* C32: after Start the container task runs exactly when the container
\* checks are enabled and Initialize succeeded; a failed Initialize does not
\* make Start fail, and the three other tasks are launched all the same; and
\* the counter Stop waits on is the number of launched tasks that have not
\* returned yet.
C32_ContainerTaskOptional ==
    /\ svc \in {"running", "waiting", "stopped"} =>
          /\ tasks["docker"] # "none" <=> (env.dockerEnabled /\ env.dockerInit)
          /\ {"system", "http", "alerts"} \subseteq Launched
          /\ wg = Cardinality({t \in Launched : tasks[t] # "exited"})
    /\ (svc = "failed" /\ env.dockerEnabled /\ ~env.dockerInit) =>
          \/ ValidateHTTPCheck(env.check) # NoError
          \/ ValidateConfig(config, env.credentials) # NoError

\* Initialize failed, Start launched the three other tasks, they ran, and
\* Stop has returned
C32_Witness ==
    /\ svc = "stopped"
    /\ env.dockerEnabled /\ ~env.dockerInit
    /\ tasks["docker"] = "none"
    /\ \A t \in {"system", "http", "alerts"} : tasks[t] = "exited"
    /\ cycles > 0
    /\ wg = 0

\* the entries of a sequence
Entries(q) == {q[i] : i \in DOMAIN q}

\* how many times the entry occurs in the sequence
Copies(q, e) == Cardinality({i \in DOMAIN q : q[i] = e})

\* C33: every alert a dispatch pass removes from the pending queue is one it
\* has passed to the dispatcher, whatever the producers did during the pass.
C33_NoAlertLost ==
    [][ProcessAlertsReturns =>
          \A a \in Entries(alerts) : Copies(alerts, a) <= Copies(pending, a)]_vars

\* processAlerts hands the queue it read to SendAlerts
ProcessAlertsSends == tasks["alerts"] = "cycle" /\ tasks'["alerts"] = "sending"

\* C34: no alert is passed to the dispatcher by two passes.  A pass hands
\* over the queue as it is when the pass reads it, which holds only alerts
\* added since the pass before it cleared the queue; the batch of a pass does
\* not change while it is dispatched; and when the pass returns nothing of
\* what it handed over is left in the queue.
C34_NoDoubleDispatch ==
    /\ [][ProcessAlertsSends =>
            /\ pending' = alerts
            /\ senders'["alerts"].queue = alerts
            /\ alerts = LastN(appended["alerts"], Len(alerts))]_vars
    /\ [][tasks["alerts"] = "sending" =>
            \/ pending' = pending
            \/ ProcessAlertsReturns]_vars
    /\ [][ProcessAlertsReturns =>
            \A a \in Entries(pending) : a \notin Entries(alerts')]_vars
    /\ [](tasks["alerts"] # "sending" => pending = <<>>)

\* a pass has dispatched an alert, and the next pass has started and finds
\* the queue empty
C34_Witness ==
    /\ tasks["alerts"] = "cycle"
    /\ lastSend.by = "alerts"
    /\ lastSend.op = "SendAlerts"
    /\ alerts = <<>>
    /\ pending = <<>>

\* the step ends the cycle of the task
CycleEnds(t) == tasks[t] = "cycle" /\ tasks'[t] # "cycle"

\* the alerts the cycle produced were enqueued
Enqueued(as) == appended'["alerts"] = appended["alerts"] \o as

\* C24: a task leaves its loop from its select only, never from inside a
\* cycle; and a cycle a tick has started ends, whether the stop channel is
\* open or closed, with all its writes made together (the append to the
\* store, the evaluation and the enqueueing of the alerts), or with none of
\* them when its collaborator failed.
C24_NoMidCycleAbort ==
    /\ [][\A t \in TaskNames :
            (tasks[t] # "exited" /\ tasks'[t] = "exited") => tasks[t] = "select"]_vars
    /\ [][CycleEnds("system") =>
            /\ tasks'["system"] = "select"
            /\ \/ "system" \in skipped' /\ UNCHANGED <<smVars, storeVars>>
               \/ /\ Len(appended'["stats"]) = Len(appended["stats"]) + 1
                  /\ clock' = clock + 1
                  /\ Enqueued(emitted')]_vars
    /\ [][CycleEnds("http") =>
            /\ tasks'["http"] = "select"
            /\ Len(appended'["http"]) = Len(appended["http"]) + 1
            /\ clock' = clock + 1
            /\ Enqueued(emitted')]_vars
    /\ [][CycleEnds("docker") =>
            /\ tasks'["docker"] = "select"
            /\ \/ "docker" \in skipped' /\ UNCHANGED <<smVars, storeVars>>
               \/ /\ Len(appended'["docker"]) > Len(appended["docker"])
                  /\ \E as \in SeqsUpTo({alerts'[i] : i \in 1..Len(alerts')}, 1) :
                        Enqueued(as)]_vars
    /\ [][CycleEnds("alerts") =>
            \/ tasks'["alerts"] = "select" /\ alerts = <<>> /\ UNCHANGED storeVars
            \/ tasks'["alerts"] = "sending" /\ pending' = alerts]_vars
    /\ [][(tasks["alerts"] = "sending" /\ tasks'["alerts"] # "sending") =>
            tasks'["alerts"] = "select" /\ alerts' = <<>>]_vars

\* Stop has closed the channel and waits; every other task has exited and
\* the resource task, which took its tick, is still in its cycle
C24_Witness ==
    /\ svc = "waiting"
    /\ stopChan = "closed"
    /\ tasks["system"] = "cycle"
    /\ \A t \in TaskNames \ {"system"} : tasks[t] = "exited"
    /\ wg = 1

----------------------------------------------------------------------------
(* Properties of the stats endpoint *)

\* a user name and a password are both configured
AuthConfigured == web.config.Username # <<>> /\ web.config.Password # <<>>

\* the header of a client that sends the configured credentials
ConfiguredHeader == SetBasicAuth(web.config.Username, web.config.Password)

\* C25: with a user name and a password configured, the wrapped handler has
\* run only for a request whose Authorization header is the one made of
\* exactly those credentials, and every other request was answered 401
\* without the handler; a request with that header was handed to the handler
\* (a user name with a colon cannot be sent in a Basic header).  With the
\* user name or the password not configured, every request reached the
\* handler.
C25_BasicAuth ==
    web.request # NoRequest =>
        /\ AuthConfigured =>
              /\ web.handled => web.request.header = ConfiguredHeader
              /\ ~web.handled => web.code = StatusUnauthorized
              /\ web.handled => web.code # StatusUnauthorized
              /\ (web.request.header = ConfiguredHeader
                    /\ \A i \in 1..Len(web.config.Username) :
                          web.config.Username[i] # Colon) => web.handled
        /\ ~AuthConfigured => web.handled

\* credentials are configured; a request with them was served, and the
\* latest request, with the right user name and a wrong password, got 401
C25_Witness ==
    /\ AuthConfigured
    /\ web.served = 1
    /\ web.requests = 2
    /\ ~web.handled
    /\ web.code = StatusUnauthorized
    /\ BasicAuth(web.request).ok
    /\ BasicAuth(web.request).username = web.config.Username
    /\ BasicAuth(web.request).password # web.config.Password

\* the tasks Start launched have all returned
AllExited == \A t \in TaskNames : tasks[t] \in {"none", "exited"}

\* C29: once Stop has closed the stop channel, and the calls in progress
\* return, every launched task takes the closed channel and exits, and Stop
\* returns.
C29_ShutdownTerminates ==
    (svc = "waiting") ~> (svc = "stopped" /\ AllExited /\ wg = 0)

\* Stop has returned after the tasks, the one of the container monitor among
\* them, had run cycles
C29_Witness ==
    /\ svc = "stopped"
    /\ stopChan = "closed"
    /\ cycles = MaxCycles
    /\ \A t \in TaskNames : tasks[t] = "exited"

----------------------------------------------------------------------------
(* The loop of SendAlerts *)

\* C30: SendAlerts hands the alerts of the batch to SendAlert one after the
\* other in the order of the batch, going on after an alert whose delivery
\* failed; it returns nil exactly when no alert of the batch returned an
\* error; and an alert that passes the checks is sent, whatever errors the
\* batch or an earlier call has met.
C30_BatchContinues ==
    /\ [][\A g \in Senders :
            (senders[g].pc = "record" /\ senders'[g] # senders[g]) =>
                LET s == senders[g]
                    errs == IF s.errors = <<>> THEN s.batchErrors
                            ELSE Append(s.batchErrors, s.errors)
                IN  IF Len(s.queue) > 1
                    THEN /\ senders'[g].pc = "check"
                         /\ senders'[g].op = s.op
                         /\ senders'[g].queue = Tail(s.queue)
                         /\ senders'[g].batchErrors = errs
                    ELSE /\ senders'[g].pc = "idle"
                         /\ senders'[g].result = "nil" <=> errs = <<>>]_vars
    /\ [][\A g \in Senders :
            (/\ senders[g].pc = "check"
             /\ senders'[g] # senders[g]
             /\ PassesChecks(config, lastSent, Head(senders[g].queue), wall)) =>
                /\ senders'[g].pc = "send"
                /\ senders'[g].queue = senders[g].queue
                /\ senders'[g].batchErrors = senders[g].batchErrors]_vars

\* the first alert of a batch failed on a channel, and the second has been
\* handed to SendAlert and has gone out to the channels
C30_Witness ==
    \E g \in Senders :
        /\ senders[g].op = "SendAlerts"
        /\ senders[g].pc = "record"
        /\ senders[g].batchErrors # <<>>
        /\ senders[g].attempted # <<>>
        /\ Len(senders[g].queue) = 1

\* the step is the return of SendAlert for an alert its checks refuse
Refuses(g) ==
    /\ senders[g].pc = "check"
    /\ senders'[g] # senders[g]
    /\ ~PassesChecks(config, lastSent, Head(senders[g].queue), wall)

\* C37: lastSent changes only in a call of SendAlert that went through the
\* channel sends, and then only in the entry of the type of its alert, which
\* becomes the time of the call; a call that returns at the enabled, level or
\* cooldown check leaves the whole map as it was.
C37_LastSentOnAttempt ==
    /\ [][(\E g \in Senders : Refuses(g)) => lastSent' = lastSent]_vars
    /\ [][lastSent' # lastSent
            => \E g \in Senders :
                  LET type == Head(senders[g].queue).Type
                  IN  /\ senders[g].pc = "record"
                      /\ senders[g].attempted # <<>>
                      /\ DOMAIN lastSent' = DOMAIN lastSent \cup {type}
                      /\ lastSent'[type] = wall
                      /\ WithoutType(lastSent', type) = WithoutType(lastSent, type)]_vars

\* two alerts of one type were handed over under a cooldown, one was
\* delivered, the other refused later, and the recorded send is still the
\* time of the delivery
C37_Witness ==
    /\ config.Enabled /\ config.Cooldown > 0 /\ config.AlertLevels = <<>>
    /\ handed = 2
    /\ \A g \in Senders : senders[g].pc = "idle"
    /\ \E type \in DispatchTypes :
          /\ DOMAIN deliveries = {type}
          /\ deliveries[type].minGap = NoGap
          /\ DOMAIN lastSent = {type}
          /\ lastSent[type] = deliveries[type].last
          /\ lastSent[type] < wall
    /\ ~fatal

----------------------------------------------------------------------------
(* Properties of the path from the producers to the dispatcher *)

\* the alert was returned by the state manager (the alerts of
\* CheckContainerStatus carry the type docker, which is no key of it)
FromStateManager(a) == a.Type \in DOMAIN states

Evicted ==
    {appended["alerts"][i] : i \in 1..(Len(appended["alerts"]) - maxHistorySize)}

OfferedAlerts == {offered[i].alert : i \in DOMAIN offered}

\* C36: the pending queue is the alerts category of the store: it holds the
\* newest alerts enqueued since the last clear, never more than the capacity;
\* a pass dispatches what the queue holds, so an alert evicted before the pass
\* is not passed to the dispatcher.
C36_BoundedQueue ==
    /\ [](/\ Len(alerts) <= maxHistorySize
          /\ Len(pending) <= maxHistorySize
          /\ alerts = LastN(appended["alerts"], maxHistorySize)
          /\ tasks["alerts"] # "sending"
                => \A a \in Evicted : FromStateManager(a) => a \notin OfferedAlerts)
    /\ [][ProcessAlertsSends
            => senders'["alerts"].queue = LastN(appended["alerts"], maxHistorySize)]_vars
    /\ [][offered' # offered
            => Copies(pending, offered'[Len(offered')].alert) > 0]_vars

\* more alerts than the capacity were enqueued, the oldest, an alert of the
\* state manager, was evicted, and a pass has dispatched the queue
C36_Witness ==
    /\ Len(appended["alerts"]) > maxHistorySize
    /\ FromStateManager(appended["alerts"][1])
    /\ appended["alerts"][1] \notin OfferedAlerts
    /\ tasks["alerts"] = "sending"
    /\ senders["alerts"].pc = "idle"
    /\ Len(pending) = maxHistorySize
    /\ Len(offered) = maxHistorySize

\* the container cycles in a row, up to the latest, that listed the container
\* as not running
StoppedRun(name) ==
    LET h == appended["docker"]
        stoppedAt(j) == h[j].Name = name /\ ~h[j].Running
    IN  Cardinality({j \in DOMAIN h : \A l \in j..Len(h) : stoppedAt(l)})

\* the alerts enqueued since the last clear that report the container stopped
StoppedAlerts(name) ==
    {i \in DOMAIN appended["alerts"] :
        /\ appended["alerts"][i].Type = "docker"
        /\ appended["alerts"][i].Message = <<"is stopped", name>>}

\* C38: a container produces a stopped alert only once it was listed as not
\* running in 3 container cycles in a row, and one alert at most while it
\* stays stopped.
C38_ContainerDebounce ==
    \A name \in {"web"} :
        /\ StoppedAlerts(name) # {} => StoppedRun(name) >= 3
        /\ Cardinality(StoppedAlerts(name)) <= 1

----------------------------------------------------------------------------
(* Progress of the calls of the history store *)

InCall(g) == callers[g] # NoCall

\* C39: whenever calls of the store are in progress one of them can take its
\* next step, and every call that was started returns.
C39_StoreCallsReturn ==
    /\ []((\E g \in Callers : InCall(g))
            => \E g \in Callers : InCall(g) /\ ~Blocked(g))
    /\ \A g \in Callers : InCall(g) ~> ~InCall(g)

\* GetStatus holds two of its four read locks and waits for the third behind
\* a pending writer, while a reader holds that mutex
C39_Witness ==
    \E g, w, r \in Callers :
        /\ callers[g].op = "GetStatus"
        /\ callers[g].held = {"alerts"}
        /\ Blocked(g)
        /\ w \in mu["stats"].pending
        /\ r \in mu["stats"].readers

====
